---- MODULE Spec2Model ----
(***************************************************************************)
(* A model of the agent coordination layer of adam_toolkit                 *)
(* (src/adam_toolkit/agent_protocol.py): the JSON document store and the   *)
(* messaging channel, the registry, the marketplace and the knowledge base *)
(* built on it.                                                            *)
(*                                                                         *)
(* Spec           the facade operations of the messaging channel, one call *)
(*                at a time (each call is one atomic action, the clock     *)
(*                stands still during a call and advances between calls).  *)
(* SpecQueue      sends that fill an inbox past its cap.                   *)
(* SpecStore      load and save step by step, by processes that share a    *)
(*                file.                                                    *)
(* SpecOrders     publish_service, create_order and fulfill_order.         *)
(* SpecKnowledge  publish_knowledge and endorse_knowledge.                 *)
(* SpecLoad       load and the read operations on the bytes of a file.     *)
(* SpecEntries    publish_knowledge of entries with any entry_id.          *)
(* SpecOpinions   endorse_knowledge and dispute_knowledge.                 *)
(* SpecQuery      query_knowledge.                                         *)
(* SpecRegistry   register, heartbeat and discover_agents.                 *)
(* SpecBroadcast  broadcast over the registry.                             *)
(* SpecCleanup    cleanup_expired over all the stores.                     *)
(* SpecStats      my_stats over the marketplace and the orders.            *)
(* SpecListings   listings published again, by either agent.               *)
(* SpecCounters   listings published once, their counters and orders.      *)
(* SpecExpiry     Message.is_expired at every age of a message.            *)
(* SpecDrain      check_messages(drain=True) step by step next to          *)
(*                processes that send.                                     *)
(* SpecDelivery   a reader that keeps draining its inbox (weak fairness).  *)
(***************************************************************************)
EXTENDS Integers, Sequences, FiniteSets, TLC

(***************************************************************************)
(* Bounds of the model.                                                    *)
(***************************************************************************)
\* The queue cap.  The program sets 1000 (agent_protocol.py:39); the model
\* scales it down so that an inbox reaches it.
MAX_MESSAGE_QUEUE == 3
\* How many messages are constructed in a run of Spec (each takes a fresh id).
MaxSends == 2
\* The clock runs from 0 to MaxTime.
MaxTime == 1

\* The agents that hold a facade (AgentNetwork.identity.agent_id).
AgentIds == {"a", "b"}
\* The agent whose filtered reads a run explores; the others read
\* unfiltered.
Reader == "b"
\* A value of to_agent / from_agent / a filter that Python treats as false.
NoValue == ""
\* The message types a run uses (two of the six of MessageType).
MessageTypes == {"request", "broadcast"}
\* A timestamp datetime.fromisoformat cannot parse.
BadTimestamp == -1
\* ttl_seconds that runs out at the first tick, and one that outlasts the run.
ShortTtl == 0
LongTtl == MaxTime + 1
\* The (timestamp, ttl_seconds) a caller gives a message it constructs at
\* clock t: the default timestamp with a short or a long ttl, or a timestamp
\* that does not parse.
Lifetimes(t) == {<<t, ShortTtl>>, <<t, LongTtl>>, <<BadTimestamp, ShortTtl>>}

VARIABLES
    now,        \* datetime.utcnow(), in clock ticks
    nextId,     \* the ids uuid4 has handed out so far
    messages,   \* messages.json: recipient -> list of serialized Message
    knowledge,  \* knowledge_store.json: {"entries": entry_id -> entry}
    last,       \* the last call made: its arguments and what it returned
    fsDir,      \* the data directory: file name -> inode (0: no such file)
    fsData,     \* inode -> the chunks written to it
    proc,       \* each process: where it is in its call, and its locals
    saved,      \* the documents a save has been called with
    marketplace, \* marketplace.json: {"services": service_id -> listing}
    orders,     \* orders.json: order_id -> serialized ServiceOrder
    pending,    \* the create_order call under way, between its two saves
    disk,       \* the store files as bytes: store -> what its file holds
    entryOrder, \* the entry_ids of knowledge["entries"], in dict order
    agents,     \* agents.json: agent_id -> record
    agentOrder, \* the agent_ids of agents.json, in dict order
    manifest    \* each facade's _manifest

vars ==
    <<now, nextId, messages, knowledge, last, fsDir, fsData, proc, saved,
      marketplace, orders, pending, disk, entryOrder, agents, agentOrder,
      manifest>>
\* The registry and the manifests of the facades; the runs of the other
\* stores leave them alone.
registryVars == <<agents, agentOrder, manifest>>
\* The files and processes of SpecStore; the runs of whole calls leave
\* them alone.
fsVars == <<fsDir, fsData, proc, saved>>
\* The stores of the marketplace; the runs of the messaging channel leave
\* them alone.
tradeVars == <<marketplace, orders, pending>>

(***************************************************************************)
(* Documents: a JSON object is a function whose domain is its key set.     *)
(***************************************************************************)
EmptyDoc == [k \in {} |-> <<>>]

\* dict.get(key, default)
Get(data, key, default) == IF key \in DOMAIN data THEN data[key] ELSE default

\* data[key] = value
Put(data, key, value) ==
    [k \in DOMAIN data \cup {key} |-> IF k = key THEN value ELSE data[k]]

Range(s) == {s[i] : i \in DOMAIN s}

\* Python's list[start:] for a start that may be negative.
SliceFrom(s, start) ==
    LET n == Len(s)
        from == IF start < 0
                THEN (IF n + start < 0 THEN 0 ELSE n + start)
                ELSE (IF start > n THEN n ELSE start)
    IN  SubSeq(s, from + 1, n)

(***************************************************************************)
(* Message                                                                 *)
(***************************************************************************)
\* is_expired with the subtraction the wrong way round.
IsExpiredSwapped(m, t) ==
    IF m.timestamp = BadTimestamp
    THEN FALSE
    ELSE (m.timestamp - t) > m.ttl_seconds

\* Message.is_expired at clock t: a timestamp that does not parse is never
\* expired.
\* is_expired with a comparison that is not strict.
IsExpiredAtTtl(m, t) ==
    IF m.timestamp = BadTimestamp
    THEN FALSE
    ELSE (t - m.timestamp) >= m.ttl_seconds

IsExpired(m, t) ==
    IF m.timestamp = BadTimestamp
    THEN FALSE
    ELSE (t - m.timestamp) > m.ttl_seconds

\* [m for m in inbox if not Message.from_dict(m).is_expired]
DropExpired(inbox, t) == SelectSeq(inbox, LAMBDA m : ~IsExpired(m, t))

(***************************************************************************)
(* send_message                                                            *)
(***************************************************************************)
\* send_message without the stamp.
StampKeepsGiven(self, message) == message

\* message.from_agent = self.identity.agent_id
Stamp(self, message) == [message EXCEPT !.from_agent = self]

\* send_message without the to_agent test.
MissingRecipientIgnored(message) == FALSE

\* if not message.to_agent: raise ValueError
MissingRecipient(message) == message.to_agent = NoValue

\* The slice one entry too long: inbox[-MAX_MESSAGE_QUEUE:]
KeepOneTooMany(inbox) == SliceFrom(inbox, 0 - MAX_MESSAGE_QUEUE)

\* The slice from the wrong end: inbox[:MAX_MESSAGE_QUEUE - 1]
KeepOldest(inbox) ==
    SubSeq(inbox, 1, IF Len(inbox) < MAX_MESSAGE_QUEUE - 1
                     THEN Len(inbox) ELSE MAX_MESSAGE_QUEUE - 1)

\* inbox[-MAX_MESSAGE_QUEUE + 1:]
KeepMostRecent(inbox) == SliceFrom(inbox, 1 - MAX_MESSAGE_QUEUE)

\* Which branch of the queue limit an inbox takes at clock t.
QueueBranch(inbox, t) ==
    IF Len(inbox) >= MAX_MESSAGE_QUEUE
    THEN IF Len(DropExpired(inbox, t)) >= MAX_MESSAGE_QUEUE
         THEN "evict"
         ELSE "dropExpired"
    ELSE "append"

\* A queue limit that empties a full inbox.
EnforceQueueLimitDropsAll(inbox, t) ==
    IF Len(inbox) >= MAX_MESSAGE_QUEUE THEN <<>> ELSE inbox

\* The "Enforce queue limit" block.
EnforceQueueLimit(inbox, t) ==
    IF Len(inbox) >= MAX_MESSAGE_QUEUE
    THEN IF Len(DropExpired(inbox, t)) >= MAX_MESSAGE_QUEUE
         THEN KeepMostRecent(DropExpired(inbox, t))
         ELSE DropExpired(inbox, t)
    ELSE inbox

\* send_message that saves the inbox without the new message.
SendDocWithoutAppend(data, msg, t) ==
    Put(data, msg.to_agent,
        EnforceQueueLimit(Get(data, msg.to_agent, <<>>), t))

\* The document send_message saves, from the document it loaded.
SendDoc(data, msg, t) ==
    Put(data, msg.to_agent,
        Append(EnforceQueueLimit(Get(data, msg.to_agent, <<>>), t), msg))

\* The record of a call; the fields a call does not use keep these values.
\* For send_message, `from` and `to` are the from_agent and the to_agent the
\* caller had left in the message and `branch` the branch of the queue limit taken; for
\* check_messages, `skipped` counts the expired messages the loop passed
\* over, and `redo` and `prevCount` say whether the call before was a
\* check_messages of the same caller and filters, and how much it returned.
\* For the marketplace calls, `service`, `order` and `params` are the
\* service_id, the order_id and the params of the call, `given` and `failure`
\* the result and the error handed to fulfill_order;
\* for cleanup_expired, `skipped` and `result` count the messages and the
\* entries it removed; for the knowledge calls,
\* `entry`, `content` and `confidence` are those of the entry handed over,
\* `stored` is the confidence stored under its entry_id before the call (0:
\* none), and `redo` says whether the call before was a publish_knowledge of
\* the same entry_id and content; for the calls on a store file, `store`
\* is the store and `value` what load returned; for register, `given` is the
\* manifest handed over, `value` the one returned and `redo` the record the
\* call found; for discover_agents and broadcast, `given` holds the
\* arguments.
NoCall ==
    [op |-> "none", caller |-> NoValue, mtype |-> NoValue, from |-> NoValue,
     to |-> NoValue, drain |-> FALSE, returned |-> <<>>, error |-> NoValue,
     branch |-> "none", redo |-> "none", prevCount |-> 0, skipped |-> 0,
     result |-> 0, service |-> NoValue, order |-> 0, params |-> NoValue,
     given |-> NoValue, failure |-> NoValue, entry |-> NoValue,
     content |-> NoValue, confidence |-> 0, stored |-> 0,
     store |-> NoValue, value |-> [type |-> "nothing"]]

\* The from_agent a caller leaves in a message it constructs: the default,
\* or an agent's id (its own, or another's).
GivenSenders == {NoValue, "a"}

\* The Message objects a caller can construct at clock t with id `id`:
\* any to_agent, also none.
NewMessages(id, t) ==
    {[message_id |-> id, from_agent |-> f, to_agent |-> r, message_type |-> ty,
      timestamp |-> life[1], ttl_seconds |-> life[2]] :
        f \in GivenSenders, r \in AgentIds \cup {NoValue},
        ty \in MessageTypes, life \in Lifetimes(t)}

\* The messages of a run that fills an inbox: one type, no from_agent given.
PlainMessages(id, t) ==
    {m \in NewMessages(id, t) :
        m.message_type = "request" /\ m.from_agent = NoValue}

SendMessage(self, message) ==
    LET msg == Stamp(self, message) IN
    /\ message.message_id = nextId + 1
    /\ nextId' = nextId + 1
    /\ IF MissingRecipient(msg)
       THEN /\ last' = [NoCall EXCEPT !.op = "send", !.caller = self,
                                      !.from = message.from_agent,
                                      !.to = message.to_agent,
                                      !.error = "ValueError"]
            /\ UNCHANGED messages
       ELSE /\ messages' = SendDoc(messages, msg, now)
            /\ last' = [NoCall EXCEPT
                          !.op = "send", !.caller = self,
                          !.from = message.from_agent,
                          !.to = message.to_agent,
                          !.branch = QueueBranch(
                                       Get(messages, msg.to_agent, <<>>), now),
                          !.result = msg.message_id]
    /\ UNCHANGED <<now, knowledge, fsVars, tradeVars, disk, entryOrder, registryVars>>

(***************************************************************************)
(* check_messages                                                          *)
(***************************************************************************)
\* A message passes the filters a call supplies (None and "" supply none).
PassesFilters(m, message_type, from_agent) ==
    /\ (message_type = NoValue \/ m.message_type = message_type)
    /\ (from_agent = NoValue \/ m.from_agent = from_agent)

\* The list `messages` the loop builds.
\* check_messages that returns the newest message first.
CheckReturnedNewestFirst(inbox, message_type, from_agent, t) ==
    LET kept == SelectSeq(inbox,
                    LAMBDA m : /\ ~IsExpired(m, t)
                               /\ PassesFilters(m, message_type, from_agent))
    IN  [i \in DOMAIN kept |-> kept[Len(kept) + 1 - i]]

CheckReturned(inbox, message_type, from_agent, t) ==
    SelectSeq(inbox, LAMBDA m : /\ ~IsExpired(m, t)
                                /\ PassesFilters(m, message_type, from_agent))

\* A loop that re-queues every message that is not expired.
CheckRemainingRequeuesAll(inbox, message_type, from_agent, drain, t) ==
    SelectSeq(inbox, LAMBDA m : ~IsExpired(m, t) /\ drain)

\* A loop that re-queues nothing.
CheckRemainingRequeuesNone(inbox, message_type, from_agent, drain, t) == <<>>

\* The list `remaining` the loop builds: only under drain is anything
\* appended to it.
CheckRemaining(inbox, message_type, from_agent, drain, t) ==
    SelectSeq(inbox, LAMBDA m : /\ ~IsExpired(m, t)
                                /\ ~PassesFilters(m, message_type, from_agent)
                                /\ drain)

\* check_messages that saves whatever drain says.
CheckDocAlwaysSaved(data, self, remaining, drain) == Put(data, self, remaining)

\* The document after the call: saved only under drain.
\* check_messages that never writes the inbox back.
CheckDocKeepsInbox(data, self, remaining, drain) == data

CheckDoc(data, self, remaining, drain) ==
    IF drain THEN Put(data, self, remaining) ELSE data

\* Whether a call repeats the call before it (same caller, same filters).
Redo(self, message_type, from_agent) ==
    IF /\ last.op = "check" /\ last.caller = self
       /\ last.mtype = message_type /\ last.from = from_agent
    THEN (IF last.drain THEN "afterDrain" ELSE "afterPeek")
    ELSE "none"

CheckMessages(self, message_type, from_agent, drain) ==
    LET inbox == Get(messages, self, <<>>) IN
    /\ messages' = CheckDoc(messages, self,
                     CheckRemaining(inbox, message_type, from_agent, drain, now),
                     drain)
    /\ last' = [NoCall EXCEPT
                  !.op = "check", !.caller = self, !.mtype = message_type,
                  !.from = from_agent, !.drain = drain,
                  !.returned = CheckReturned(inbox, message_type, from_agent, now),
                  !.redo = Redo(self, message_type, from_agent),
                  !.skipped = Len(inbox) - Len(DropExpired(inbox, now)),
                  !.prevCount = IF Redo(self, message_type, from_agent) = "none"
                                THEN 0 ELSE Len(last.returned)]
    /\ UNCHANGED <<now, nextId, knowledge, fsVars, tradeVars, disk, entryOrder, registryVars>>

(***************************************************************************)
(* my_stats, cleanup_expired                                               *)
(***************************************************************************)
\* list_services(agent_id=agent_id, status=status) on a marketplace
\* document: the listings of the agent that have the status (an empty
\* agent_id or status filters nothing).
ListServices(data, agent_id, status) ==
    LET services == Get(data, "services", EmptyDoc) IN
    {services[sid] : sid \in
        {id \in DOMAIN services :
            /\ ~(status # NoValue /\ services[id].status # status)
            /\ ~(agent_id # NoValue /\ services[id].agent_id # agent_id)}}

\* my_orders(as_customer) on an orders document.
MyOrders(data, self, as_customer) ==
    {data[oid] : oid \in
        {id \in DOMAIN data :
            /\ ~(as_customer /\ data[id].customer_agent_id # self)
            /\ ~(~as_customer /\ data[id].provider_agent_id # self)}}

\* sum(s.total_revenue for s in services)
RECURSIVE SumRevenue(_)
SumRevenue(services) ==
    IF services = {} THEN 0
    ELSE LET s == CHOOSE s \in services : TRUE
         IN  s.total_revenue + SumRevenue(services \ {s})

\* sum(o.price_paid for o in customer_orders if o.status == "completed")
RECURSIVE SumSpent(_)
SumSpent(customer_orders) ==
    IF customer_orders = {} THEN 0
    ELSE LET o == CHOOSE o \in customer_orders : TRUE
         IN  (IF o.status = "completed" THEN o.price_paid ELSE 0)
                 + SumSpent(customer_orders \ {o})

\* my_stats: list_services with the default status ("active"), my_orders
\* both ways and check_messages(drain=False); `result` is pending_messages
\* and `value` the mapping returned, without the name of the identity.
MyStats(self) ==
    LET inbox == Get(messages, self, <<>>)
        services == ListServices(marketplace, self, "active")
        customer_orders == MyOrders(orders, self, TRUE)
        provider_orders == MyOrders(orders, self, FALSE)
        pending_messages == Len(CheckReturned(inbox, NoValue, NoValue, now))
    IN
    /\ messages' = CheckDoc(messages, self,
                     CheckRemaining(inbox, NoValue, NoValue, FALSE, now), FALSE)
    /\ last' = [NoCall EXCEPT
                  !.op = "stats", !.caller = self,
                  !.result = pending_messages,
                  !.value =
                      [agent_id |-> self,
                       services_published |-> Cardinality(services),
                       total_revenue |-> SumRevenue(services),
                       total_spent |-> SumSpent(customer_orders),
                       orders_placed |-> Cardinality(customer_orders),
                       orders_received |-> Cardinality(provider_orders),
                       pending_messages |-> pending_messages]]
    /\ UNCHANGED <<now, nextId, knowledge, fsVars, tradeVars, disk, entryOrder, registryVars>>

\* KnowledgeEntry.is_expired at clock t.
EntryExpired(e, t) ==
    IF e.expires_at = BadTimestamp THEN FALSE ELSE t > e.expires_at

\* cleanup_expired that saves the inboxes as it found them.
CleanMessagesKeepsAll(data, t) == data

\* The messages document cleanup_expired saves.
CleanMessages(data, t) == [k \in DOMAIN data |-> DropExpired(data[k], t)]

\* The knowledge document cleanup_expired saves: the "entries" key is written
\* even when the document had none.
CleanKnowledge(data, t) ==
    LET entries == Get(data, "entries", EmptyDoc) IN
    Put(data, "entries",
        [eid \in {e \in DOMAIN entries : ~EntryExpired(entries[e], t)}
            |-> entries[eid]])

\* The message ids stored in a messages document.
StoredIds(data) ==
    UNION {{data[k][i].message_id : i \in DOMAIN data[k]} : k \in DOMAIN data}

CleanupExpired(self) ==
    /\ messages' = CleanMessages(messages, now)
    /\ knowledge' = CleanKnowledge(knowledge, now)
    /\ entryOrder' = SelectSeq(entryOrder,
                         LAMBDA id : id \in DOMAIN knowledge'["entries"])
    /\ last' = [NoCall EXCEPT
                  !.op = "cleanup", !.caller = self,
                  !.skipped = Cardinality(StoredIds(messages))
                                  - Cardinality(StoredIds(messages')),
                  !.result = Cardinality(DOMAIN Get(knowledge, "entries", EmptyDoc))
                                 - Cardinality(DOMAIN knowledge'["entries"])]
    /\ UNCHANGED <<now, nextId, fsVars, tradeVars, disk, registryVars>>

\* Time passes between two calls.
Tick ==
    /\ now < MaxTime
    /\ now' = now + 1
    /\ last' = [NoCall EXCEPT !.op = "tick"]
    /\ UNCHANGED <<nextId, messages, knowledge, fsVars, tradeVars, disk, entryOrder, registryVars>>

(***************************************************************************)
(* The marketplace: publish_service, create_order, fulfill_order.  Prices  *)
(* and revenues are counted in whole units.                                *)
(***************************************************************************)
\* Python's None.
None == "None"
\* What `params or {}` stores for params that are None.
EmptyParams == "{}"
\* ServiceOrder.completed_at of an order that was never fulfilled.
NotCompleted == -1
\* The service id callers give their listings, and one nobody publishes.
ServiceIds == {"s1"}
UnknownService == "s9"
\* The prices of the listings.
Prices == {1, 2}
\* The values a caller hands over as params.
GivenParams == {None, "p1"}
\* The (result, error) pairs fulfill_order is called with: a result, an
\* error, a result with an empty error, and both.
GivenOutcomes ==
    {<<"r1", None>>, <<None, "boom">>, <<"r1", NoValue>>, <<"r1", "boom">>}
\* The agent that publishes the listings and the agent that orders them;
\* either of them fulfils.
Provider == "a"
Customer == "b"

\* The ServiceListing objects a caller can construct, counters at their
\* defaults.
NewListings ==
    {[service_id |-> s, agent_id |-> g, price |-> p, status |-> "active",
      total_orders |-> 0, total_revenue |-> 0] :
        s \in ServiceIds, g \in GivenSenders, p \in Prices}

\* The "services" mapping of a marketplace document.
Services(data) == Get(data, "services", EmptyDoc)

\* publish_service that keeps the agent_id the caller supplied.
PublishDocKeepsProvider(data, self, service) ==
    Put(data, "services", Put(Services(data), service.service_id, service))

\* publish_service that keeps the counters of a listing it finds.
PublishDocKeepsCounters(data, self, service) ==
    LET found == Get(Services(data), service.service_id, service) IN
    Put(data, "services",
        Put(Services(data), service.service_id,
            [service EXCEPT !.agent_id = self,
                            !.total_orders = found.total_orders,
                            !.total_revenue = found.total_revenue]))

\* The document publish_service saves.
PublishDoc(data, self, service) ==
    Put(data, "services",
        Put(Services(data), service.service_id,
            [service EXCEPT !.agent_id = self]))

PublishService(self, service) ==
    /\ marketplace' = PublishDoc(marketplace, self, service)
    /\ last' = [NoCall EXCEPT !.op = "publish_service", !.caller = self,
                              !.from = service.agent_id,
                              !.service = service.service_id,
                              !.given = service]
    /\ UNCHANGED <<now, nextId, messages, knowledge, fsVars, orders, pending, disk, entryOrder, registryVars>>

\* What dict.get returns for a key the mapping lacks (None): `not` holds of
\* it, as it does of an empty mapping.
Missing == EmptyDoc

\* services.get(service_id) in create_order.
StoredListing(data, service_id) == Get(Services(data), service_id, Missing)

\* A lookup that hands fulfill_order a blank pending order when the
\* order_id is unknown.
StoredOrderOrBlank(data, order_id) ==
    Get(data, order_id,
        [order_id |-> order_id, service_id |-> NoValue,
         customer_agent_id |-> NoValue, provider_agent_id |-> NoValue,
         params |-> EmptyParams, status |-> "pending", result |-> None,
         error |-> None, created_at |-> 0, completed_at |-> NotCompleted,
         price_paid |-> 0])

\* orders_data.get(order_id) in fulfill_order.
StoredOrder(data, order_id) == Get(data, order_id, Missing)

\* The ServiceOrder create_order constructs at clock t for a listing.
NewOrder(id, self, service_id, listing, params, t) ==
    [order_id |-> id, service_id |-> service_id, customer_agent_id |-> self,
     provider_agent_id |-> listing.agent_id,
     params |-> IF params = None THEN EmptyParams ELSE params,
     status |-> "pending", result |-> None, error |-> None,
     created_at |-> t, completed_at |-> NotCompleted,
     price_paid |-> listing.price]

\* The Message create_order constructs for the provider: the default
\* timestamp and ttl_seconds, which outlasts the run.
OrderRequest(id, order, service_id, params, t) ==
    [message_id |-> id, from_agent |-> NoValue,
     to_agent |-> order.provider_agent_id, message_type |-> "request",
     timestamp |-> t, ttl_seconds |-> LongTtl,
     body |-> [order_id |-> order.order_id, service_id |-> service_id,
               params |-> IF params = None THEN EmptyParams ELSE params]]

\* create_order that notifies the provider before it saves the order.
CreateOrderNotifiesFirst == <<"messages", "orders">>

\* The stores create_order saves, in the order in which it saves them.
CreateOrderSaves == <<"orders", "messages">>

\* No create_order call is between its two saves.
NoPending == [caller |-> NoValue]

\* One save of a create_order call: the order into the orders document, or
\* the notification through send_message.
CreateOrderSave(store, call) ==
    /\ orders' = IF store = "orders"
                 THEN Put(orders, call.order.order_id, call.order)
                 ELSE orders
    /\ messages' = IF store = "messages"
                   THEN SendDoc(messages, Stamp(call.caller, call.message), now)
                   ELSE messages

\* create_order up to and including its first save.
CreateOrderBegin(self, service_id, params) ==
    /\ pending.caller = NoValue
    /\ IF StoredListing(marketplace, service_id) = Missing
       THEN /\ last' = [NoCall EXCEPT !.op = "create_order", !.caller = self,
                                      !.service = service_id,
                                      !.params = params,
                                      !.error = "ValueError"]
            /\ UNCHANGED <<nextId, messages, orders, pending>>
       ELSE LET listing == StoredListing(marketplace, service_id)
                order == NewOrder(nextId + 1, self, service_id, listing,
                                  params, now)
                call == [caller |-> self, order |-> order,
                         message |-> OrderRequest(nextId + 2, order,
                                                  service_id, params, now)]
            IN  /\ nextId' = nextId + 2
                /\ CreateOrderSave(CreateOrderSaves[1], call)
                /\ pending' = call
                /\ last' = [NoCall EXCEPT !.op = "create_order_begin",
                                          !.caller = self,
                                          !.service = service_id,
                                          !.params = params,
                                          !.order = order.order_id]
    /\ UNCHANGED <<now, knowledge, marketplace, fsVars, disk, entryOrder, registryVars>>

\* The rest of create_order: its second save, and the return of the order.
CreateOrderEnd ==
    /\ pending.caller # NoValue
    /\ CreateOrderSave(CreateOrderSaves[2], pending)
    /\ pending' = NoPending
    /\ last' = [NoCall EXCEPT !.op = "create_order",
                              !.caller = pending.caller,
                              !.service = pending.order.service_id,
                              !.params = pending.message.body.params,
                              !.order = pending.order.order_id]
    /\ UNCHANGED <<now, nextId, knowledge, marketplace, fsVars, disk, entryOrder, registryVars>>

\* Python's truth value of an Optional[str].
Truthy(x) == x # None /\ x # NoValue

\* fulfill_order that builds the order anew from some of its fields.
FulfilledOrderDropsPrice(order, result, error, t) ==
    IF Truthy(error)
    THEN [order EXCEPT !.status = "failed", !.error = error,
                       !.completed_at = t, !.price_paid = 0]
    ELSE [order EXCEPT !.status = "completed", !.result = result,
                       !.completed_at = t, !.price_paid = 0]

\* fulfill_order that takes an order with an error for completed.
FulfilledOrderSwapped(order, result, error, t) ==
    IF Truthy(error)
    THEN [order EXCEPT !.status = "completed", !.result = result,
                       !.completed_at = t]
    ELSE [order EXCEPT !.status = "failed", !.error = error,
                       !.completed_at = t]

\* The order fulfill_order saves, from the stored order: ServiceOrder.from_dict,
\* the assignments, to_dict.
FulfilledOrder(order, result, error, t) ==
    IF Truthy(error)
    THEN [order EXCEPT !.status = "failed", !.error = error,
                       !.completed_at = t]
    ELSE [order EXCEPT !.status = "completed", !.result = result,
                       !.completed_at = t]

\* fulfill_order that adds the price to the revenue whatever the status.
FulfillStatsAlwaysPaid(data, order) ==
    LET services == Services(data) IN
    IF order.service_id \in DOMAIN services
    THEN Put(data, "services",
             Put(services, order.service_id,
                 [services[order.service_id] EXCEPT
                    !.total_orders = @ + 1,
                    !.total_revenue = @ + order.price_paid]))
    ELSE data

\* fulfill_order that writes the price paid back into the listing.
FulfillStatsSetsPrice(data, order) ==
    LET services == Services(data) IN
    IF order.service_id \in DOMAIN services
    THEN Put(data, "services",
             Put(services, order.service_id,
                 [services[order.service_id] EXCEPT
                    !.total_orders = @ + 1,
                    !.total_revenue = IF order.status = "completed"
                                      THEN @ + order.price_paid ELSE @,
                    !.price = order.price_paid]))
    ELSE data

\* The marketplace document after fulfill_order: the counters of the order's
\* listing, if there is one; otherwise nothing is saved.
FulfillStats(data, order) ==
    LET services == Services(data) IN
    IF order.service_id \in DOMAIN services
    THEN LET sdata == services[order.service_id]
             counted == [sdata EXCEPT !.total_orders = @ + 1]
             paid == IF order.status = "completed"
                     THEN [counted EXCEPT
                             !.total_revenue = @ + order.price_paid]
                     ELSE counted
         IN  Put(data, "services", Put(services, order.service_id, paid))
    ELSE data

\* The Message fulfill_order constructs for the customer.
OrderResponse(id, order, result, error, t) ==
    [message_id |-> id, from_agent |-> NoValue,
     to_agent |-> order.customer_agent_id, message_type |-> "response",
     timestamp |-> t, ttl_seconds |-> LongTtl,
     body |-> [order_id |-> order.order_id, status |-> order.status,
               result |-> result, error |-> error]]

FulfillOrder(self, order_id, result, error) ==
    /\ pending.caller = NoValue
    /\ IF StoredOrder(orders, order_id) = Missing
       THEN /\ last' = [NoCall EXCEPT !.op = "fulfill_order", !.caller = self,
                                      !.order = order_id, !.given = result,
                                      !.failure = error,
                                      !.error = "ValueError"]
            /\ UNCHANGED <<nextId, messages, orders, marketplace>>
       ELSE LET order == FulfilledOrder(StoredOrder(orders, order_id),
                                        result, error, now)
            IN  /\ marketplace' = FulfillStats(marketplace, order)
                /\ orders' = Put(orders, order_id, order)
                /\ nextId' = nextId + 1
                /\ messages' =
                     SendDoc(messages,
                             Stamp(self, OrderResponse(nextId + 1, order,
                                                       result, error, now)),
                             now)
                /\ last' = [NoCall EXCEPT !.op = "fulfill_order",
                                          !.caller = self,
                                          !.order = order_id,
                                          !.service = order.service_id,
                                          !.given = result,
                                          !.failure = error]
    /\ UNCHANGED <<now, knowledge, pending, fsVars, disk, entryOrder, registryVars>>

(***************************************************************************)
(* The shared knowledge base: publish_knowledge.  Confidences are counted  *)
(* in hundredths.                                                          *)
(***************************************************************************)
\* The contents of the entries, and the first 16 hex digits of their
\* sha256, which differ for these contents.
Contents == {"c1", "c2"}
ContentHash(content) == IF content = "c1" THEN "h1" ELSE "h2"
\* The confidences of the entries.
Confidences == {50, 90}
\* KNOWLEDGE_TTL_DAYS in clock ticks: it outlasts the run.
KnowledgeTtl == MaxTime + 1

\* The KnowledgeEntry objects a caller constructs at clock t from a content
\* and a confidence, after __post_init__: the entry_id is the content hash,
\* published_at the time of construction, expires_at the default or the
\* time of construction.
NewEntries(t) ==
    {[entry_id |-> ContentHash(c), content |-> c, category |-> "strategy",
      confidence |-> k, tags |-> {},
      published_by |-> NoValue, published_at |-> t, expires_at |-> e,
      endorsements |-> <<>>, disputes |-> <<>>] :
        c \in Contents, k \in Confidences, e \in {t + KnowledgeTtl, t}}

\* An entry_id a caller passes to the constructor, which then keeps it.
ChosenEntryId == "x"
\* The KnowledgeEntry objects a caller may hand to publish_knowledge: those
\* above, and the same with an entry_id of the caller's choosing.
GivenEntries(t) ==
    NewEntries(t) \cup {[e EXCEPT !.entry_id = ChosenEntryId] : e \in NewEntries(t)}

\* The "entries" mapping of a knowledge document.
Entries(data) == Get(data, "entries", EmptyDoc)

\* publish_knowledge in which the entry published last wins.
PublishedDocLastWins(data, self, entry) ==
    Put(data, "entries",
        Put(Entries(data), entry.entry_id,
            [entry EXCEPT !.published_by = self]))

\* publish_knowledge that also replaces a stored entry of equal confidence.
PublishedDocReplacesEqual(data, self, entry) ==
    LET stamped == [entry EXCEPT !.published_by = self]
        entries == Entries(data)
        id == stamped.entry_id IN
    Put(data, "entries",
        IF id \in DOMAIN entries /\ stamped.confidence < entries[id].confidence
        THEN entries
        ELSE Put(entries, id, stamped))

\* The document publish_knowledge saves.
PublishedDoc(data, self, entry) ==
    LET stamped == [entry EXCEPT !.published_by = self]
        entries == Entries(data)
        id == stamped.entry_id IN
    Put(data, "entries",
        IF id \in DOMAIN entries
        THEN IF stamped.confidence > entries[id].confidence
             THEN Put(entries, id, stamped)
             ELSE entries
        ELSE Put(entries, id, stamped))

PublishKnowledge(self, entry) ==
    /\ knowledge' = PublishedDoc(knowledge, self, entry)
    /\ entryOrder' = IF entry.entry_id \in DOMAIN Entries(knowledge)
                     THEN entryOrder
                     ELSE Append(entryOrder, entry.entry_id)
    /\ last' = [NoCall EXCEPT
                  !.op = "publish_knowledge", !.caller = self,
                  !.entry = entry.entry_id,
                  !.given = [entry EXCEPT !.published_by = self],
                  !.branch =
                     IF entry.entry_id \notin DOMAIN Entries(knowledge)
                     THEN "new"
                     ELSE IF Entries(knowledge')[entry.entry_id]
                                = Entries(knowledge)[entry.entry_id]
                     THEN "kept" ELSE "replaced",
                  !.content = entry.content,
                  !.confidence = entry.confidence,
                  !.stored =
                     IF entry.entry_id \in DOMAIN Entries(knowledge)
                     THEN Entries(knowledge)[entry.entry_id].confidence
                     ELSE 0,
                  !.redo =
                     IF /\ last.op = "publish_knowledge"
                        /\ last.entry = entry.entry_id
                        /\ last.content = entry.content
                     THEN "again" ELSE "none"]
    /\ UNCHANGED <<now, nextId, messages, fsVars, tradeVars, disk, registryVars>>

\* An entry_id nobody has published, and the agents that endorse.
UnknownEntry == "h9"
Endorsers == {"b"}
\* The step of an endorsement and the largest confidence, in hundredths.
EndorseStep == 5
FullConfidence == 100

\* The smaller and the larger of two numbers.
Min(x, y) == IF x <= y THEN x ELSE y
Max(x, y) == IF x >= y THEN x ELSE y

\* endorse_knowledge that takes no agent to have endorsed.
HasEndorsedNever(entry, self) == FALSE

\* self.identity.agent_id in entry.endorsements
HasEndorsed(entry, self) == self \in Range(entry.endorsements)

\* The entry endorse_knowledge stores for an agent that has not endorsed it.
Endorsed(entry, self) ==
    [entry EXCEPT !.endorsements = Append(@, self),
                  !.confidence = Min(FullConfidence, @ + EndorseStep)]

\* endorse_knowledge: nothing is saved when the entry is unknown or the
\* caller has endorsed it before.
EndorseKnowledge(self, entry_id) ==
    LET entries == Entries(knowledge) IN
    /\ IF entry_id \notin DOMAIN entries
       THEN /\ last' = [NoCall EXCEPT !.op = "endorse_knowledge",
                                      !.caller = self, !.entry = entry_id,
                                      !.branch = "missing"]
            /\ UNCHANGED knowledge
       ELSE IF HasEndorsed(entries[entry_id], self)
       THEN /\ last' = [NoCall EXCEPT !.op = "endorse_knowledge",
                                      !.caller = self, !.entry = entry_id,
                                      !.branch = "already"]
            /\ UNCHANGED knowledge
       ELSE /\ knowledge' =
                 Put(knowledge, "entries",
                     Put(entries, entry_id, Endorsed(entries[entry_id], self)))
            /\ last' = [NoCall EXCEPT !.op = "endorse_knowledge",
                                      !.caller = self, !.entry = entry_id,
                                      !.branch = "endorsed"]
    /\ UNCHANGED <<now, nextId, messages, fsVars, tradeVars, disk, entryOrder, registryVars>>

\* The agents that dispute: one whose id holds a colon among them.
Disputers == {"a", "b", "a:x"}
\* The reasons given to dispute_knowledge: none, or one.
Reasons == {NoValue, "r1"}
\* s.split(":"): the pieces of a string between its colons.
Split(s) ==
    CASE s = "a:x" -> <<"a", "x">>
      [] OTHER -> <<s>>
\* f"{agent_id}:{reason}" if reason else agent_id, as the pieces between its
\* colons.
DisputeRecord(self, reason) ==
    IF reason # NoValue THEN Split(self) \o Split(reason) ELSE Split(self)
\* [d.split(":")[0] for d in entry.disputes]
DisputePrefixes(disputes) == {disputes[i][1] : i \in DOMAIN disputes}
\* The step of a dispute, in hundredths.
DisputeStep == 10

\* self.identity.agent_id in [d.split(":")[0] for d in entry.disputes]
HasDisputed(entry, self) == self \in DisputePrefixes(entry.disputes)

\* The entry dispute_knowledge stores for an agent it takes not to have
\* disputed it.
Disputed(entry, self, reason) ==
    [entry EXCEPT !.disputes = Append(@, DisputeRecord(self, reason)),
                  !.confidence = Max(0, @ - DisputeStep)]

\* dispute_knowledge: nothing is saved when the entry is unknown or the
\* caller's id is the first piece of a stored record.
DisputeKnowledge(self, entry_id, reason) ==
    LET entries == Entries(knowledge) IN
    /\ IF entry_id \notin DOMAIN entries
       THEN /\ last' = [NoCall EXCEPT !.op = "dispute_knowledge",
                                      !.caller = self, !.entry = entry_id,
                                      !.given = reason,
                                      !.branch = "missing"]
            /\ UNCHANGED knowledge
       ELSE IF HasDisputed(entries[entry_id], self)
       THEN /\ last' = [NoCall EXCEPT !.op = "dispute_knowledge",
                                      !.caller = self, !.entry = entry_id,
                                      !.given = reason,
                                      !.branch = "already"]
            /\ UNCHANGED knowledge
       ELSE /\ knowledge' =
                 Put(knowledge, "entries",
                     Put(entries, entry_id,
                         Disputed(entries[entry_id], self, reason)))
            /\ last' = [NoCall EXCEPT !.op = "dispute_knowledge",
                                      !.caller = self, !.entry = entry_id,
                                      !.given = reason,
                                      !.branch = "disputed"]
    /\ UNCHANGED <<now, nextId, messages, fsVars, tradeVars, disk, entryOrder, registryVars>>

\* The categories and tag lists of the entries, and the texts of their
\* contents, letter by letter.
Categories == {"strategy", "warning"}
TagSets == {{}, {"t1", "t2"}}
ContentText(content) ==
    IF content = "c1" THEN <<"A", "b">> ELSE <<"b", "C">>
\* The entries above, with a category and tags of the caller's choosing.
TaggedEntries(t) ==
    {[e EXCEPT !.category = c, !.tags = g] :
        e \in NewEntries(t), c \in Categories, g \in TagSets}

\* What a clock tick takes from the recency boost of 0.2, which is gone at
\* 168 hours: a tick is 84 hours.
FullBoost == 20
BoostLossPerTick == 10
\* KnowledgeEntry.relevance_score at clock t, in hundredths.
RelevanceScore(e, t) ==
    LET counted == e.confidence + Len(e.endorsements) * EndorseStep
                                - Len(e.disputes) * DisputeStep
        boost == IF e.published_at = BadTimestamp THEN 0
                 ELSE Max(0, FullBoost - (t - e.published_at) * BoostLossPerTick)
    IN  Max(0, Min(FullConfidence, counted + boost))

\* str.lower(), letter by letter.
Lower(text) ==
    [i \in DOMAIN text |->
        CASE text[i] = "A" -> "a" [] text[i] = "B" -> "b"
          [] text[i] = "C" -> "c" [] OTHER -> text[i]]
\* needle in hay
IsSubstring(needle, hay) ==
    \E i \in 0..(Len(hay) - Len(needle)) :
       SubSeq(hay, i + 1, i + Len(needle)) = needle

\* The filters of query_knowledge: None (or an empty value) filters nothing.
NoFilter == <<>>
\* query_knowledge that compares min_confidence with the confidence.
QueryKeepsByConfidence(e, q, t) ==
    /\ ~EntryExpired(e, t)
    /\ ~(e.confidence < q.min_confidence)
    /\ ~(q.category # NoValue /\ e.category # q.category)
    /\ ~(q.tags # {} /\ q.tags \cap e.tags = {})
    /\ ~(q.search_text # NoFilter
            /\ ~IsSubstring(Lower(q.search_text), Lower(ContentText(e.content))))

\* Whether query_knowledge keeps entry e for the filters q at clock t.
QueryKeeps(e, q, t) ==
    /\ ~EntryExpired(e, t)
    /\ ~(RelevanceScore(e, t) < q.min_confidence)
    /\ ~(q.category # NoValue /\ e.category # q.category)
    /\ ~(q.tags # {} /\ q.tags \cap e.tags = {})
    /\ ~(q.search_text # NoFilter
            /\ ~IsSubstring(Lower(q.search_text), Lower(ContentText(e.content))))

\* query_knowledge without the sort: the results in the order of the store.
StoreOrder(results, t) == results

\* list.sort(key=relevance_score, reverse=True): the largest first, entries
\* of equal score in the order they had.
RECURSIVE SortByRelevance(_, _)
SortByRelevance(results, t) ==
    IF results = <<>> THEN <<>>
    ELSE LET first == CHOOSE i \in DOMAIN results :
                 /\ \A j \in DOMAIN results :
                       RelevanceScore(results[j], t)
                           <= RelevanceScore(results[i], t)
                 /\ \A j \in 1..(i - 1) :
                       RelevanceScore(results[j], t)
                           < RelevanceScore(results[i], t)
         IN  <<results[first]>> \o
             SortByRelevance(
                 [k \in 1..(Len(results) - 1) |->
                     IF k < first THEN results[k] ELSE results[k + 1]], t)

\* results[:limit]
Truncate(results, limit) ==
    IF limit >= 0 THEN SubSeq(results, 1, Min(limit, Len(results)))
    ELSE SubSeq(results, 1, Max(0, Len(results) + limit))

\* What query_knowledge returns at clock t.
QueryResult(data, order, q, t) ==
    LET stored == [i \in DOMAIN order |-> Entries(data)[order[i]]]
        results == SelectSeq(stored, LAMBDA e : QueryKeeps(e, q, t))
    IN  Truncate(SortByRelevance(results, t), q.limit)

QueryKnowledge(self, q) ==
    /\ last' = [NoCall EXCEPT !.op = "query_knowledge", !.caller = self,
                              !.given = q,
                              !.redo = IF last.op = "publish_knowledge"
                                       THEN last.branch ELSE "none",
                              !.content = IF last.op = "publish_knowledge"
                                          THEN last.content ELSE NoValue,
                              !.returned =
                                  QueryResult(knowledge, entryOrder, q, now)]
    /\ UNCHANGED <<now, nextId, messages, knowledge, fsVars, tradeVars, disk,
                   entryOrder, registryVars>>

(***************************************************************************)
(* The registry: register, heartbeat, discover_agents, broadcast.  A       *)
(* manifest is modelled by its identity and its capabilities; a capability *)
(* group is the list of its actions and an action the set of its tags.     *)
(***************************************************************************)
\* self._manifest before the first register: None.
NoManifest == [none |-> TRUE]

\* The AgentIdentity each facade was built with.
Identity(self) ==
    [agent_id |-> self,
     agent_type |-> IF self = "a" THEN "coder" ELSE "general"]

\* The capabilities a manifest is given: none, or one group of two actions.
CapabilityLists == {<<>>, << <<{"t1"}, {"t1", "t2"}>> >>}

\* The AgentManifest objects a caller can construct: the identity is the
\* caller's or any other agent's.
NewManifests ==
    {[identity |-> Identity(g), capabilities |-> caps] :
        g \in AgentIds, caps \in CapabilityLists}

\* AgentManifest(identity=self.identity)
EmptyManifest(self) == [identity |-> Identity(self), capabilities |-> <<>>]

\* AgentManifest.all_tags
AllTags(m) ==
    UNION {UNION Range(m.capabilities[g]) : g \in DOMAIN m.capabilities}

\* AgentManifest.to_dict: the derived fields are written next to the ones
\* they are derived from.
ToDict(m) ==
    [identity |-> m.identity, capabilities |-> m.capabilities,
     total_skills |-> Len(m.capabilities), tags |-> AllTags(m)]

\* AgentManifest.from_dict: the derived fields are not read.
FromDict(d) ==
    [identity |-> d.identity, capabilities |-> d.capabilities]

\* The manifest register sets: the one given, else the one of the session,
\* else an empty one.
SessionManifest(self, given, session) ==
    IF given # NoManifest THEN given
    ELSE IF session = NoManifest THEN EmptyManifest(self)
    ELSE session

\* register that keeps the registered_at of the record it finds.
RegisterDocKeepsRegisteredAt(data, self, m, t) ==
    Put(data, self,
        [manifest |-> ToDict(m),
         registered_at |-> Get(Get(data, self, EmptyDoc), "registered_at", t),
         last_heartbeat |-> t, status |-> "online"])

\* The document register saves.
RegisterDoc(data, self, m, t) ==
    Put(data, self,
        [manifest |-> ToDict(m), registered_at |-> t,
         last_heartbeat |-> t, status |-> "online"])

\* The keys of a dict after data[key] = value.
KeysAfterPut(order, key) ==
    IF key \in Range(order) THEN order ELSE Append(order, key)

Register(self, given) ==
    LET m == SessionManifest(self, given, manifest[self]) IN
    /\ manifest' = [manifest EXCEPT ![self] = m]
    /\ agents' = RegisterDoc(agents, self, m, now)
    /\ agentOrder' = KeysAfterPut(agentOrder, self)
    /\ last' = [NoCall EXCEPT !.op = "register", !.caller = self,
                              !.given = given, !.value = m,
                              !.redo = IF self \notin DOMAIN agents
                                       THEN "none"
                                       ELSE IF "manifest" \in DOMAIN agents[self]
                                       THEN "registered" ELSE "heartbeat"]
    /\ UNCHANGED <<now, nextId, messages, knowledge, fsVars, tradeVars, disk,
                   entryOrder>>

\* The document heartbeat saves: the record found, or an empty one, with
\* two keys set.
\* heartbeat that stamps registered_at as well.
HeartbeatDocStampsAll(data, self, t) ==
    Put(data, self,
        Put(Put(Put(Get(data, self, EmptyDoc), "registered_at", t),
                "last_heartbeat", t),
            "status", "online"))

HeartbeatDoc(data, self, t) ==
    Put(data, self,
        Put(Put(Get(data, self, EmptyDoc), "last_heartbeat", t),
            "status", "online"))

Heartbeat(self) ==
    /\ agents' = HeartbeatDoc(agents, self, now)
    /\ agentOrder' = KeysAfterPut(agentOrder, self)
    /\ last' = [NoCall EXCEPT !.op = "heartbeat", !.caller = self]
    /\ UNCHANGED <<now, nextId, messages, knowledge, fsVars, tradeVars, disk,
                   entryOrder, manifest>>

\* Another program leaves a last_heartbeat that does not parse in the record
\* of an agent.
ForeignHeartbeat(agent_id) ==
    /\ agent_id \in DOMAIN agents
    /\ agents[agent_id].last_heartbeat # BadTimestamp
    /\ agents' = Put(agents, agent_id,
                     Put(agents[agent_id], "last_heartbeat", BadTimestamp))
    /\ last' = [NoCall EXCEPT !.op = "foreign"]
    /\ UNCHANGED <<now, nextId, messages, knowledge, fsVars, tradeVars, disk,
                   entryOrder, agentOrder, manifest>>

\* stale_threshold_hours: the default, in ticks of the clock.
DefaultStaleThreshold == 24

\* The online_only block of discover_agents: whether it skips the record.
\* The staleness test with a comparison that is not strict.
OfflineAtThreshold(agent_data, stale_threshold_hours, t) ==
    IF "last_heartbeat" \notin DOMAIN agent_data THEN TRUE
    ELSE IF agent_data.last_heartbeat = BadTimestamp THEN TRUE
    ELSE (t - agent_data.last_heartbeat) >= stale_threshold_hours

Offline(agent_data, stale_threshold_hours, t) ==
    IF "last_heartbeat" \notin DOMAIN agent_data THEN TRUE
    ELSE IF agent_data.last_heartbeat = BadTimestamp THEN TRUE
    ELSE (t - agent_data.last_heartbeat) > stale_threshold_hours

\* discover_agents that never leaves the caller out.
DiscoverKeepsSelf(agent_id, agent_data, self, q, t) ==
    /\ DOMAIN Get(agent_data, "manifest", EmptyDoc) # {}
    /\ LET m == FromDict(agent_data.manifest) IN
       /\ ~(q.agent_type # NoValue /\ m.identity.agent_type # q.agent_type)
       /\ ~(q.tags # {} /\ q.tags \cap AllTags(m) = {})
       /\ ~(q.online_only /\ Offline(agent_data, q.stale_threshold_hours, t))

\* Whether the loop of discover_agents appends the manifest of a record.
DiscoverKeeps(agent_id, agent_data, self, q, t) ==
    /\ ~(q.exclude_self /\ agent_id = self)
    /\ DOMAIN Get(agent_data, "manifest", EmptyDoc) # {}
    /\ LET m == FromDict(agent_data.manifest) IN
       /\ ~(q.agent_type # NoValue /\ m.identity.agent_type # q.agent_type)
       /\ ~(q.tags # {} /\ q.tags \cap AllTags(m) = {})
       /\ ~(q.online_only /\ Offline(agent_data, q.stale_threshold_hours, t))

\* What discover_agents returns at clock t.
Discover(data, order, self, q, t) ==
    LET kept == SelectSeq(order,
                    LAMBDA id : DiscoverKeeps(id, data[id], self, q, t))
    IN  [i \in DOMAIN kept |-> FromDict(data[kept[i]].manifest)]

DiscoverAgents(self, q) ==
    /\ last' = [NoCall EXCEPT !.op = "discover_agents", !.caller = self,
                              !.given = q,
                              !.returned =
                                  Discover(agents, agentOrder, self, q, now)]
    /\ UNCHANGED <<now, nextId, messages, knowledge, fsVars, tradeVars, disk,
                   entryOrder, registryVars>>

\* discover_agents(exclude_self=True), as broadcast calls it.
BroadcastQuery ==
    [agent_type |-> NoValue, tags |-> {}, exclude_self |-> TRUE,
     online_only |-> FALSE, stale_threshold_hours |-> DefaultStaleThreshold]

\* The Message broadcast constructs for a manifest: the default timestamp
\* and ttl_seconds, which outlasts the run.
BroadcastMessage(id, m, subject, body, t) ==
    [message_id |-> id, from_agent |-> NoValue,
     to_agent |-> m.identity.agent_id, message_type |-> "broadcast",
     timestamp |-> t, ttl_seconds |-> LongTtl,
     subject |-> subject, body |-> body]

\* The messages document after the loop of broadcast over the manifests
\* from position i on, the ids handed out so far being `id`.
RECURSIVE BroadcastDoc(_, _, _, _, _, _, _, _)
BroadcastDoc(data, self, found, i, id, subject, body, t) ==
    IF i > Len(found) THEN data
    ELSE BroadcastDoc(
             SendDoc(data,
                     Stamp(self, BroadcastMessage(id + 1, found[i], subject,
                                                  body, t)), t),
             self, found, i + 1, id + 1, subject, body, t)

Broadcast(self, subject, body) ==
    LET found == Discover(agents, agentOrder, self, BroadcastQuery, now) IN
    /\ messages' = BroadcastDoc(messages, self, found, 1, nextId, subject,
                                body, now)
    /\ nextId' = nextId + Len(found)
    /\ last' = [NoCall EXCEPT !.op = "broadcast", !.caller = self,
                              !.given = [subject |-> subject, body |-> body],
                              !.returned =
                                  [i \in DOMAIN found |-> nextId + i]]
    /\ UNCHANGED <<now, knowledge, fsVars, tradeVars, disk, entryOrder,
                   registryVars>>

(***************************************************************************)
(* JsonStore on a POSIX file system.  A file name refers to an inode; an   *)
(* open file keeps writing to the inode it opened, whatever the name       *)
(* refers to by then.  A document is written in ChunksPerDoc writes (the   *)
(* buffer flushes of json.dump and the flush at close).                    *)
(***************************************************************************)
\* The writes one json.dump takes.
ChunksPerDoc == 2
\* The send_message calls one process makes in a run of SpecStore.
MaxOpsPerWriter == 1
\* The check_messages calls the Reader makes in a run of SpecDrain.
MaxChecks == 2

\* The processes that send, the process that only loads, and the process
\* in which the Reader calls check_messages(drain=True).
Writers == AgentIds
Loader == "r"
Checker == "k"
Procs == Writers \cup {Loader, Checker}
\* self.file_path and self.file_path + ".tmp"
FileNames == {"target", "tmp"}
\* Enough inodes: one per name and one per open file.
InodeIds == 1..(Cardinality(FileNames) + Cardinality(Procs))

\* The i-th piece of the text json.dump writes for document d.
Chunk(d, i) == [doc |-> d, part |-> i]
\* What a file holds where nothing was written (a hole left by a truncate).
Hole == [doc |-> EmptyDoc, part |-> 0]
\* json.dump(data, f, indent=2, default=str): the whole text.
Serialize(d) == [i \in 1..ChunksPerDoc |-> Chunk(d, i)]

\* Whether json.load accepts a file's content: it is the whole text of one
\* document.
Parses(content) ==
    /\ Len(content) = ChunksPerDoc
    /\ \A i \in 1..ChunksPerDoc :
          /\ content[i].part = i
          /\ content[i].doc = content[1].doc

\* json.load(f), with load's except clause: content that does not parse
\* loads as {}.
LoadContent(content) ==
    IF Parses(content) THEN content[1].doc ELSE EmptyDoc

\* f.write at offset off of a file that holds content.
WriteAt(content, off, chunk) ==
    [i \in 1..(IF Len(content) > off + 1 THEN Len(content) ELSE off + 1) |->
        IF i = off + 1 THEN chunk
        ELSE IF i <= Len(content) THEN content[i] ELSE Hole]

\* The inodes a name or an open file refers to.
Referenced(dir, pr) ==
    {dir[n] : n \in FileNames} \cup {pr[p].fd : p \in Procs}

\* The inode open() creates: the first one nothing refers to.
FreeInode(dir, pr) ==
    CHOOSE i \in InodeIds :
        /\ i \notin Referenced(dir, pr)
        /\ \A j \in InodeIds : j < i => j \in Referenced(dir, pr)

\* The file system frees an inode nothing refers to.
Sweep(dir, pr, data) ==
    [i \in InodeIds |-> IF i \in Referenced(dir, pr) THEN data[i] ELSE <<>>]

\* What JsonStore.load returns in this state when it runs undisturbed.
DiskDoc ==
    IF fsDir["target"] = 0 THEN EmptyDoc ELSE LoadContent(fsData[fsDir["target"]])

NoMessage ==
    [message_id |-> 0, from_agent |-> NoValue, to_agent |-> NoValue,
     message_type |-> "request", timestamp |-> 0, ttl_seconds |-> 0]

\* A process between two calls.
IdleProc ==
    [pc |-> "idle", fd |-> 0, off |-> 0, msg |-> NoMessage,
     loaded |-> EmptyDoc, hasLoaded |-> FALSE, existed |-> FALSE,
     data |-> EmptyDoc, ops |-> 0, outcome |-> "none",
     returned |-> <<>>, consumed |-> {}, undisturbed |-> {}]

\* Where a process goes when its load has returned `doc`: send_message
\* builds the document to save, check_messages the list it returns and the
\* document to save; the loader is done.
AfterLoad(p, rec, doc) ==
    IF p \in Writers
    THEN [rec EXCEPT !.pc = "saveOpen", !.fd = 0, !.loaded = doc,
                     !.hasLoaded = TRUE, !.data = SendDoc(doc, rec.msg, now)]
    ELSE IF p = Checker
    THEN LET inbox == Get(doc, Reader, <<>>) IN
         [rec EXCEPT !.pc = "saveOpen", !.fd = 0, !.loaded = doc,
                     !.hasLoaded = TRUE,
                     !.returned = CheckReturned(inbox, NoValue, NoValue, now),
                     !.data = CheckDoc(doc, Reader,
                                       CheckRemaining(inbox, NoValue, NoValue,
                                                      TRUE, now),
                                       TRUE)]
    ELSE [rec EXCEPT !.pc = "idle", !.fd = 0, !.loaded = doc,
                     !.hasLoaded = TRUE]

\* load: os.path.exists(self.file_path)
LoadExists(p, rec) ==
    IF fsDir["target"] = 0
    THEN AfterLoad(p, [rec EXCEPT !.existed = FALSE], EmptyDoc)
    ELSE [rec EXCEPT !.pc = "loadOpen", !.existed = TRUE, !.hasLoaded = FALSE]

\* A process calls send_message: the message is constructed and stamped,
\* and load tests whether the file exists.
StartSend(p, to) ==
    /\ p \in Writers
    /\ proc[p].pc = "idle"
    /\ proc[p].ops < MaxOpsPerWriter
    /\ nextId' = nextId + 1
    /\ LET msg == Stamp(p, [NoMessage EXCEPT !.message_id = nextId + 1,
                                             !.to_agent = to,
                                             !.timestamp = now,
                                             !.ttl_seconds = LongTtl])
           rec == [proc[p] EXCEPT !.msg = msg, !.ops = @ + 1,
                                  !.outcome = "none"]
       IN  proc' = [proc EXCEPT ![p] = LoadExists(p, rec)]
    /\ UNCHANGED <<now, messages, knowledge, last, fsDir, fsData, saved, tradeVars, disk, entryOrder, registryVars>>

\* The Reader calls check_messages(drain=True): load tests whether the file
\* exists.
StartCheck(p) ==
    /\ p = Checker
    /\ proc[p].pc = "idle"
    /\ proc[p].ops < MaxChecks
    /\ proc' = [proc EXCEPT ![p] =
                  LoadExists(p, [proc[p] EXCEPT !.ops = @ + 1,
                                                !.outcome = "none",
                                                !.returned = <<>>])]
    /\ UNCHANGED <<now, nextId, messages, knowledge, last, fsDir, fsData, saved, tradeVars, disk, entryOrder, registryVars>>

\* The loader calls load.
StartLoad(p) ==
    /\ p = Loader
    /\ proc[p].pc = "idle"
    /\ proc' = [proc EXCEPT ![p] = LoadExists(p, proc[p])]
    /\ UNCHANGED <<now, nextId, messages, knowledge, last, fsDir, fsData, saved, tradeVars, disk, entryOrder, registryVars>>

\* load: open(self.file_path, "r"); a file that is gone by now is an IOError.
LoadOpen(p) ==
    /\ proc[p].pc = "loadOpen"
    /\ proc' = [proc EXCEPT ![p] =
                  IF fsDir["target"] = 0
                  THEN AfterLoad(p, proc[p], EmptyDoc)
                  ELSE [proc[p] EXCEPT !.pc = "loadRead", !.fd = fsDir["target"]]]
    /\ UNCHANGED <<now, nextId, messages, knowledge, last, fsDir, fsData, saved, tradeVars, disk, entryOrder, registryVars>>

\* load: json.load(f) reads what the opened inode holds now.
LoadRead(p) ==
    /\ proc[p].pc = "loadRead"
    /\ LET pr == [proc EXCEPT ![p] =
                    AfterLoad(p, proc[p], LoadContent(fsData[proc[p].fd]))]
       IN  /\ proc' = pr
           /\ fsData' = Sweep(fsDir, pr, fsData)
    /\ UNCHANGED <<now, nextId, messages, knowledge, last, fsDir, saved, tradeVars, disk, entryOrder, registryVars>>

\* save: open(tmp, "w") truncates the file of that name when there is one,
\* and creates it otherwise.
SaveOpen(p) ==
    /\ proc[p].pc = "saveOpen"
    /\ saved' = saved \cup {proc[p].data}
    /\ LET inode == IF fsDir["tmp"] = 0 THEN FreeInode(fsDir, proc)
                    ELSE fsDir["tmp"]
       IN  /\ fsDir' = [fsDir EXCEPT !["tmp"] = inode]
           /\ fsData' = [fsData EXCEPT ![inode] = <<>>]
           /\ proc' = [proc EXCEPT ![p].pc = "saveWrite", ![p].fd = inode,
                                   ![p].off = 0]
    /\ UNCHANGED <<now, nextId, messages, knowledge, last, tradeVars, disk, entryOrder, registryVars>>

\* save: json.dump writes the next piece; after the last one the file is
\* closed.
SaveWrite(p) ==
    /\ proc[p].pc = "saveWrite"
    /\ LET off == proc[p].off
           content == WriteAt(fsData[proc[p].fd], off,
                              Serialize(proc[p].data)[off + 1])
           pr == IF off + 1 = ChunksPerDoc
                 THEN [proc EXCEPT ![p].pc = "saveReplace", ![p].fd = 0,
                                   ![p].off = 0]
                 ELSE [proc EXCEPT ![p].off = off + 1]
       IN  /\ proc' = pr
           /\ fsData' = Sweep(fsDir, pr, [fsData EXCEPT ![proc[p].fd] = content])
    /\ UNCHANGED <<now, nextId, messages, knowledge, last, fsDir, saved, tradeVars, disk, entryOrder, registryVars>>

\* os.replace(tmp, target): the target name now refers to tmp's inode and
\* the tmp name is gone.
Replace(dir) == [dir EXCEPT !["target"] = dir["tmp"], !["tmp"] = 0]

\* The ids of the messages of a list.
MessageIds(list) == {list[i].message_id : i \in DOMAIN list}

\* The process after its save: for check_messages, the messages its
\* draining calls have returned so far, and those returned by calls whose
\* save replaced the document while no send_message was under way.
AfterSave(p, pr) ==
    IF p = Checker
    THEN [pr[p] EXCEPT
            !.pc = "idle", !.outcome = "ok",
            !.consumed = @ \cup MessageIds(pr[p].returned),
            !.undisturbed =
                IF \A w \in Writers : pr[w].pc = "idle"
                THEN @ \cup MessageIds(pr[p].returned) ELSE @]
    ELSE [pr[p] EXCEPT !.pc = "idle", !.outcome = "ok"]

\* save: os.replace(tmp, self.file_path); send_message then returns the
\* message id, check_messages its list.  With no file named tmp, os.replace
\* raises FileNotFoundError, which neither of them catches.
SaveReplace(p) ==
    /\ proc[p].pc = "saveReplace"
    /\ IF fsDir["tmp"] = 0
       THEN /\ proc' = [proc EXCEPT ![p].pc = "idle",
                                    ![p].outcome = "FileNotFoundError"]
            /\ UNCHANGED <<fsDir, fsData, last>>
       ELSE /\ fsDir' = Replace(fsDir)
            /\ proc' = [proc EXCEPT ![p] = AfterSave(p, proc)]
            /\ fsData' = Sweep(Replace(fsDir), proc, fsData)
            /\ last' = IF p = Checker
                       THEN [NoCall EXCEPT !.op = "check", !.caller = Reader,
                                           !.drain = TRUE,
                                           !.returned = proc[p].returned]
                       ELSE [NoCall EXCEPT !.op = "save", !.caller = p,
                                           !.result = proc[p].msg.message_id]
    /\ UNCHANGED <<now, nextId, messages, knowledge, saved, tradeVars, disk, entryOrder, registryVars>>

InitStore ==
    /\ fsDir = [n \in FileNames |-> 0]
    /\ fsData = [i \in InodeIds |-> <<>>]
    /\ proc = [p \in Procs |-> IdleProc]
    /\ saved = {}

(***************************************************************************)
(* JsonStore.load on the bytes of a store file.  A text is a sequence of   *)
(* tokens, each token some bytes of the file; a JSON value carries the     *)
(* Python type json.load gives it.  The values here hold no items: what is *)
(* read is a file that is not a document of its store.                     *)
(***************************************************************************)
\* The files the read operations load, and the operation that reads each.
StoreNames == {"agents", "marketplace", "knowledge", "messages"}
ReadOperation ==
    [agents |-> "discover_agents", marketplace |-> "list_services",
     knowledge |-> "query_knowledge", messages |-> "check_messages"]
\* The key a document of the store has at its top: an agent's id in
\* agents.json (another agent's than the caller's), the caller's in
\* messages.json.
StoreKey(store, self) ==
    CASE store = "agents" -> CHOOSE a \in AgentIds : a # self
      [] store = "marketplace" -> "services"
      [] store = "knowledge" -> "entries"
      [] store = "messages" -> self

\* A byte that no UTF-8 sequence starts with (0xff).
BadByte == "0xff"
\* The tokens that are not string literals.
Punctuation == {"{", "}", "[", "]", ":", "null", BadByte}

JNone == [type |-> "NoneType"]
JStr(token) == [type |-> "str", text |-> token]
JList(items) == [type |-> "list", items |-> items]
JDict(members) == [type |-> "dict", members |-> members]
EmptyDict == JDict(EmptyDoc)
EmptyList == JList(<<>>)
\* The JSON values a file may hold: null, [], {} and an object with the one
\* key, which holds one of these.
Values(key) ==
    {JNone, EmptyList, EmptyDict}
        \cup {JDict([k \in {key} |-> v]) : v \in {JNone, EmptyList, EmptyDict}}

\* json.dump(data, f, ...): the text of a value (a list of at most one item,
\* an object of at most one member).
RECURSIVE Dumps(_)
Dumps(v) ==
    CASE v.type = "NoneType" -> <<"null">>
      [] v.type = "str" -> <<v.text>>
      [] v.type = "list" ->
            <<"[">> \o (IF v.items = <<>> THEN <<>> ELSE Dumps(v.items[1]))
                    \o <<"]">>
      [] v.type = "dict" ->
            IF DOMAIN v.members = {} THEN <<"{", "}">>
            ELSE LET k == CHOOSE k \in DOMAIN v.members : TRUE
                 IN  <<"{", k, ":">> \o Dumps(v.members[k]) \o <<"}">>

\* What a call gives back: a value, or the exception it raises.
Nothing == [type |-> "nothing"]
Return(v) == [raised |-> NoValue, value |-> v]
Raise(exc) == [raised |-> exc, value |-> Nothing]

\* The JSON scanner: the value the text starts with and the text after it.
NoParse == [ok |-> FALSE]
Parsed(v, rest) == [ok |-> TRUE, value |-> v, rest |-> rest]
RECURSIVE ScanOnce(_)
ScanOnce(text) ==
    IF text = <<>> THEN NoParse
    ELSE LET rest == Tail(text) IN
         CASE Head(text) = "null" -> Parsed(JNone, rest)
           [] Head(text) \notin Punctuation -> Parsed(JStr(Head(text)), rest)
           [] Head(text) = "[" ->
                IF rest # <<>> /\ Head(rest) = "]"
                THEN Parsed(EmptyList, Tail(rest))
                ELSE LET item == ScanOnce(rest) IN
                     IF item.ok /\ item.rest # <<>> /\ Head(item.rest) = "]"
                     THEN Parsed(JList(<<item.value>>), Tail(item.rest))
                     ELSE NoParse
           [] Head(text) = "{" ->
                IF rest # <<>> /\ Head(rest) = "}"
                THEN Parsed(EmptyDict, Tail(rest))
                ELSE IF Len(rest) >= 2 /\ rest[1] \notin Punctuation
                                       /\ rest[2] = ":"
                THEN LET member == ScanOnce(SubSeq(rest, 3, Len(rest))) IN
                     IF /\ member.ok
                        /\ member.rest # <<>>
                        /\ Head(member.rest) = "}"
                     THEN Parsed(JDict([k \in {rest[1]} |-> member.value]),
                                 Tail(member.rest))
                     ELSE NoParse
                ELSE NoParse
           [] OTHER -> NoParse

\* json.loads: the text is one value and nothing else, or JSONDecodeError.
JsonLoads(text) ==
    LET scanned == ScanOnce(text) IN
    IF scanned.ok /\ scanned.rest = <<>> THEN Return(scanned.value)
    ELSE Raise("JSONDecodeError")

\* f.read() of a file opened in text mode: the bytes decoded as UTF-8.
Decode(content) ==
    IF \E i \in DOMAIN content : content[i] = BadByte
    THEN Raise("UnicodeDecodeError")
    ELSE Return(content)

\* The exception classes and the class each derives from.
Bases ==
    [PermissionError |-> "OSError", OSError |-> "Exception",
     JSONDecodeError |-> "ValueError", UnicodeDecodeError |-> "ValueError",
     ValueError |-> "Exception", AttributeError |-> "Exception",
     TypeError |-> "Exception"]
RECURSIVE IsSubclass(_, _)
IsSubclass(class, base) ==
    \/ class = base
    \/ class \in DOMAIN Bases /\ IsSubclass(Bases[class], base)
\* except (json.JSONDecodeError, IOError): IOError is OSError.
LoadCatches == {"JSONDecodeError", "OSError"}
Caught(exc) == \E class \in LoadCatches : IsSubclass(exc, class)

\* A file: whether the name exists, whether open may read it, its bytes.
Absent == [exists |-> FALSE, readable |-> FALSE, content |-> <<>>]
FileOf(content) == [exists |-> TRUE, readable |-> TRUE, content |-> content]

\* with open(self.file_path, "r") as f: return json.load(f)
JsonLoad(file) ==
    IF ~file.readable THEN Raise("PermissionError")
    ELSE LET text == Decode(file.content) IN
         IF text.raised # NoValue THEN text ELSE JsonLoads(text.value)

\* JsonStore.load
Load(file) ==
    IF ~file.exists THEN Return(EmptyDict)
    ELSE LET loaded == JsonLoad(file) IN
         IF loaded.raised # NoValue /\ Caught(loaded.raised)
         THEN Return(EmptyDict)
         ELSE loaded

\* data.get(key, default) and data.items(): attributes of a dict only.
DictGet(data, key, default) ==
    IF data.type # "dict" THEN Raise("AttributeError")
    ELSE Return(Get(data.members, key, default))
DictItems(data) ==
    IF data.type # "dict" THEN Raise("AttributeError")
    ELSE Return(data.members)

\* discover_agents on the loaded value: the record of every other agent is
\* asked for its manifest, and an agent without one is passed over.
Discovered(data, self) ==
    LET items == DictItems(data) IN
    IF items.raised # NoValue THEN items
    ELSE IF \E agent_id \in DOMAIN items.value \ {self} :
               DictGet(items.value[agent_id], "manifest", EmptyDict).raised
                   # NoValue
    THEN Raise("AttributeError")
    ELSE Return(<<>>)

\* list_services and query_knowledge on the loaded value: the items under
\* the key (none, in the values here).
Listed(data, key) ==
    LET found == DictGet(data, key, EmptyDict) IN
    IF found.raised # NoValue THEN found
    ELSE LET items == DictItems(found.value) IN
         IF items.raised # NoValue THEN items ELSE Return(<<>>)

\* check_messages on the loaded value: the loop over the caller's inbox
\* (empty, in the values here).
Inboxed(data, self) ==
    LET found == DictGet(data, self, EmptyList) IN
    IF found.raised # NoValue THEN found
    ELSE IF found.value.type = "NoneType" THEN Raise("TypeError")
    ELSE Return(<<>>)

ReadResult(store, data, self) ==
    CASE store = "agents" -> Discovered(data, self)
      [] store = "messages" -> Inboxed(data, self)
      [] OTHER -> Listed(data, StoreKey(store, self))

\* The texts a file is given: those of the values, cut short at either end,
\* or with one byte damaged.
Texts(key) ==
    LET whole == {Dumps(v) : v \in Values(key)} IN
    UNION {{SubSeq(t, 1, n) : n \in 0..Len(t)}
               \cup {Tail(t)}
               \cup {[t EXCEPT ![i] = BadByte] : i \in 1..Len(t)} : t \in whole}

\* A run looks at one store file at a time.
OthersAbsent(store) == \A other \in StoreNames \ {store} : disk[other] = Absent

\* Something writes the file of a store.
WriteFile(store, content) ==
    /\ OthersAbsent(store)
    /\ disk' = [disk EXCEPT ![store] = FileOf(content)]
    /\ last' = [NoCall EXCEPT !.op = "write", !.store = store]
    /\ UNCHANGED <<now, nextId, messages, knowledge, fsVars, tradeVars, entryOrder, registryVars>>

\* The file loses its read permission.
MakeUnreadable(store) ==
    /\ disk[store].exists
    /\ disk[store].readable
    /\ disk' = [disk EXCEPT ![store].readable = FALSE]
    /\ last' = [NoCall EXCEPT !.op = "chmod", !.store = store]
    /\ UNCHANGED <<now, nextId, messages, knowledge, fsVars, tradeVars, entryOrder, registryVars>>

\* The file is removed.
RemoveFile(store) ==
    /\ disk[store].exists
    /\ disk' = [disk EXCEPT ![store] = Absent]
    /\ last' = [NoCall EXCEPT !.op = "remove", !.store = store]
    /\ UNCHANGED <<now, nextId, messages, knowledge, fsVars, tradeVars, entryOrder, registryVars>>

\* store.load()
LoadStore(store) ==
    /\ LET loaded == Load(disk[store]) IN
       last' = [NoCall EXCEPT !.op = "load", !.store = store,
                              !.error = loaded.raised,
                              !.value = loaded.value]
    /\ UNCHANGED <<now, nextId, messages, knowledge, fsVars, tradeVars, disk, entryOrder, registryVars>>

\* discover_agents(), list_services(), query_knowledge() and
\* check_messages(drain=drain) of agent self, on the file of the store; a
\* draining check_messages saves the document with the caller's inbox
\* emptied.
ReadStore(self, store, drain) ==
    /\ drain => store = "messages"
    /\ LET loaded == Load(disk[store])
           result == IF loaded.raised # NoValue THEN loaded
                     ELSE ReadResult(store, loaded.value, self)
       IN  /\ last' = [NoCall EXCEPT !.op = ReadOperation[store],
                                     !.caller = self, !.store = store,
                                     !.drain = drain,
                                     !.error = result.raised,
                                     !.returned =
                                         IF result.raised = NoValue
                                         THEN result.value ELSE <<>>]
           /\ IF drain /\ result.raised = NoValue
              THEN disk' = [disk EXCEPT ![store] =
                       FileOf(Dumps(JDict(Put(loaded.value.members, self,
                                              EmptyList))))]
              ELSE UNCHANGED disk
    /\ UNCHANGED <<now, nextId, messages, knowledge, fsVars, tradeVars, entryOrder, registryVars>>

(***************************************************************************)
(* The facade, one call at a time.                                         *)
(***************************************************************************)
Init ==
    /\ now = 0
    /\ nextId = 0
    /\ messages = EmptyDoc
    /\ knowledge = EmptyDoc
    /\ last = NoCall
    /\ marketplace = EmptyDoc
    /\ orders = EmptyDoc
    /\ pending = NoPending
    /\ disk = [store \in StoreNames |-> Absent]
    /\ entryOrder = <<>>
    /\ agents = EmptyDoc
    /\ agentOrder = <<>>
    /\ manifest = [self \in AgentIds |-> NoManifest]
    /\ InitStore

Filters == MessageTypes \cup {NoValue}
SenderFilters == AgentIds \cup {NoValue}

Next ==
    \/ /\ nextId < MaxSends
       /\ \E self \in AgentIds : \E message \in NewMessages(nextId + 1, now) :
             SendMessage(self, message)
    \/ \E mt \in Filters : \E fa \in SenderFilters : \E drain \in BOOLEAN :
          CheckMessages(Reader, mt, fa, drain)
    \/ \E self \in AgentIds \ {Reader} : \E drain \in BOOLEAN :
          CheckMessages(self, NoValue, NoValue, drain)
    \/ \E self \in AgentIds : MyStats(self)
    \/ \E self \in AgentIds : CleanupExpired(self)
    \/ Tick

Spec == Init /\ [][Next]_vars

(***************************************************************************)
(* Properties of the messaging channel, stated without the operators the   *)
(* actions are built from.                                                 *)
(***************************************************************************)
\* A message's age at clock t exceeds its ttl_seconds.
Overdue(m, t) == m.timestamp >= 0 /\ t > m.timestamp + m.ttl_seconds

\* A message has the type and the sender a call asks for.
Wanted(m, mt, fa) ==
    /\ mt # NoValue => m.message_type = mt
    /\ fa # NoValue => m.from_agent = fa

\* The messages stored in a document.
StoredMessages(data) == UNION {Range(data[k]) : k \in DOMAIN data}

\* The documents of the stores of the model.
StoreDocs == <<messages, knowledge, marketplace, orders>>

\* C1: a check_messages that immediately follows a check_messages(drain=true)
\* of the same agent with the same filters, with no send in between,
\* returns the empty list.
C1_SecondCheckAfterDrainIsEmpty ==
    [][( /\ last.op = "check" /\ last.drain
         /\ last'.op = "check" /\ last'.caller = last.caller
         /\ last'.mtype = last.mtype /\ last'.from = last.from )
       => last'.returned = <<>>]_vars

C1_Witness ==
    /\ last.op = "check" /\ last.redo = "afterDrain"
    /\ last.prevCount > 0 /\ last.returned = <<>>

\* C2: check_messages(drain=false), also the one my_stats makes, leaves the
\* messages document as it was, and repeated with the same filters and no
\* call or tick in between it returns the same messages.
C2_PeekLeavesDocument ==
    [][/\ (last'.op = "check" /\ ~last'.drain) => messages' = messages
       /\ last'.op = "stats" => messages' = messages
       /\ ( /\ last.op = "check" /\ ~last.drain
            /\ last'.op = "check" /\ ~last'.drain
            /\ last'.caller = last.caller
            /\ last'.mtype = last.mtype /\ last'.from = last.from )
          => last'.returned = last.returned]_vars

C2_Witness ==
    /\ last.op = "check" /\ ~last.drain /\ last.redo = "afterPeek"
    /\ last.prevCount > 0 /\ Len(last.returned) = last.prevCount
    /\ Len(Get(messages, last.caller, <<>>)) > Len(last.returned)

\* C3: check_messages never returns a message whose age exceeds its
\* ttl_seconds, and under drain=true no such message is left in the
\* caller's inbox, whether or not it matches the filters.
C3_ExpiredNeverReturned ==
    last.op = "check" =>
       /\ \A m \in Range(last.returned) : ~Overdue(m, now)
       /\ last.drain =>
            \A m \in Range(Get(messages, last.caller, <<>>)) : ~Overdue(m, now)

C3_Witness ==
    /\ last.op = "check" /\ last.drain /\ last.skipped > 0
    /\ last.mtype # NoValue /\ last.returned = <<>>
    /\ Get(messages, last.caller, <<>>) = <<>>

\* C4: check_messages(drain=true) returns the messages of the caller's inbox
\* that are not expired and pass every filter, and leaves in the inbox
\* exactly those that are not expired and fail one, the other inboxes as
\* they were; every check_messages returns each message of the inbox that
\* is not expired and passes its filters.
C4_FilterDoesNotConsume ==
    [][last'.op = "check" =>
         LET self == last'.caller
             inbox == Get(messages, self, <<>>)
         IN  /\ last'.returned =
                  SelectSeq(inbox, LAMBDA m : /\ ~Overdue(m, now)
                                              /\ Wanted(m, last'.mtype, last'.from))
             /\ last'.drain =>
                  /\ self \in DOMAIN messages'
                  /\ messages'[self] =
                       SelectSeq(inbox, LAMBDA m : /\ ~Overdue(m, now)
                                                   /\ ~Wanted(m, last'.mtype,
                                                              last'.from))
                  /\ \A k \in DOMAIN messages' \ {self} :
                        k \in DOMAIN messages /\ messages'[k] = messages[k]]_vars

C4_Witness ==
    /\ last.op = "check" /\ last.drain
    /\ (last.mtype # NoValue \/ last.from # NoValue)
    /\ last.returned # <<>>
    /\ \E m \in Range(Get(messages, last.caller, <<>>)) :
          ~Overdue(m, now) /\ ~Wanted(m, last.mtype, last.from)

\* C5: a message enters a document only through send_message, with
\* from_agent the id of the agent that called it, whatever from_agent the
\* caller had put in the message; check_messages returns stored messages
\* only.
C5_SenderIsStamped ==
    [][/\ \A x \in StoredMessages(messages') \ StoredMessages(messages) :
            /\ last'.op = "send"
            /\ x.message_id = last'.result
            /\ x.from_agent = last'.caller
       /\ last'.op = "check" =>
            Range(last'.returned) \subseteq StoredMessages(messages)]_vars

C5_Witness ==
    /\ last.op = "send" /\ last.error = NoValue
    /\ last.from # NoValue /\ last.from # last.caller
    /\ \E x \in StoredMessages(messages) :
          x.message_id = last.result /\ x.from_agent = last.caller

\* C8: send_message with an empty to_agent raises ValueError and writes
\* nothing: every store document is as it was.
C8_MissingRecipientWritesNothing ==
    [][(last'.op = "send" /\ last'.to = NoValue) =>
          /\ last'.error = "ValueError"
          /\ StoreDocs' = StoreDocs]_vars

C8_Witness ==
    /\ last.op = "send" /\ last.to = NoValue /\ last.error = "ValueError"
    /\ StoredMessages(messages) # {}
    /\ knowledge # EmptyDoc

(***************************************************************************)
(* SpecQueue: runs long enough to fill an inbox past the cap; the messages *)
(* are plain and the reads unfiltered.                                     *)
(***************************************************************************)
MaxQueueSends == MAX_MESSAGE_QUEUE + 1
\* The one agent that sends in these runs.
QueueSender == "a"

NextQueue ==
    \/ /\ nextId < MaxQueueSends
       /\ \E message \in PlainMessages(nextId + 1, now) :
             SendMessage(QueueSender, message)
    \/ \E self \in AgentIds : \E drain \in BOOLEAN :
          CheckMessages(self, NoValue, NoValue, drain)
    \/ \E self \in AgentIds : CleanupExpired(self)
    \/ Tick

SpecQueue == Init /\ [][NextQueue]_vars

\* C6: no inbox is ever longer than the cap.
C6_InboxWithinCap ==
    \A k \in DOMAIN messages : Len(messages[k]) <= MAX_MESSAGE_QUEUE

C6_Witness ==
    /\ last.op = "send" /\ last.branch = "evict"
    /\ \A k \in DOMAIN messages : Len(messages[k]) <= MAX_MESSAGE_QUEUE
    /\ Len(Get(messages, last.to, <<>>)) = MAX_MESSAGE_QUEUE

\* C7: send_message with a to_agent puts the stamped message at the end of
\* the recipient's inbox; before it stand the most recent cap-1 entries, in
\* their order, when the inbox was at the cap with nothing expired to drop
\* below it, and the whole inbox as it was when it was below the cap.
C7_NewestAlwaysAdmitted ==
    [][(last'.op = "send" /\ last'.to # NoValue) =>
         LET to == last'.to
             old == Get(messages, to, <<>>)
             fresh == SelectSeq(old, LAMBDA m : ~Overdue(m, now))
             new == Get(messages', to, <<>>)
         IN  /\ Len(new) >= 1
             /\ \E m \in PlainMessages(nextId + 1, now) :
                   /\ m.to_agent = to
                   /\ new[Len(new)] = [m EXCEPT !.from_agent = last'.caller]
             /\ new[Len(new)].message_id = last'.result
             /\ (Len(old) >= MAX_MESSAGE_QUEUE /\ Len(fresh) >= MAX_MESSAGE_QUEUE)
                  => SubSeq(new, 1, Len(new) - 1) =
                       SubSeq(fresh, Len(fresh) - MAX_MESSAGE_QUEUE + 2, Len(fresh))
             /\ Len(old) < MAX_MESSAGE_QUEUE
                  => SubSeq(new, 1, Len(new) - 1) = old]_vars

C7_Witness ==
    /\ last.op = "send" /\ last.branch = "evict" /\ last.to # NoValue
    /\ LET inbox == Get(messages, last.to, <<>>)
       IN  /\ Len(inbox) = MAX_MESSAGE_QUEUE
           /\ inbox[Len(inbox)].message_id = last.result
           /\ inbox[1].message_id > 1

(***************************************************************************)
(* SpecStore: processes that share the messages document, each step of    *)
(* load and save an action of its own.  Nothing orders the steps of two    *)
(* processes: the store takes no lock.                                     *)
(***************************************************************************)
NextStore ==
    \/ \E p \in Writers : \E to \in AgentIds : StartSend(p, to)
    \/ StartLoad(Loader)
    \/ \E p \in Procs : LoadOpen(p)
    \/ \E p \in Procs : LoadRead(p)
    \/ \E p \in Writers : SaveOpen(p)
    \/ \E p \in Writers : SaveWrite(p)
    \/ \E p \in Writers : SaveReplace(p)

SpecStore == Init /\ [][NextStore]_vars

\* A document holds the message with this id.
HasMessage(doc, id) ==
    \E k \in DOMAIN doc : \E i \in DOMAIN doc[k] : doc[k][i].message_id = id

\* A process has made one send_message call, which returned the message id.
Returned(p) ==
    proc[p].pc = "idle" /\ proc[p].ops = 1 /\ proc[p].outcome = "ok"

\* C9: a load returns the document as it was when no file existed yet, or
\* a document that some save was called with; never anything else.
C9_LoadSeesWholeDocuments ==
    \A p \in Procs :
       proc[p].hasLoaded =>
          \/ proc[p].loaded \in saved
          \/ ~proc[p].existed /\ proc[p].loaded = EmptyDoc

\* C10: when two processes have each made one send_message call that
\* returned, and the one that saved last had loaded the document before
\* the other's message was in it, the document holds the later saver's
\* message and not the other's.
C10_LaterSaveDiscardsEarlier ==
    \A p \in Writers : \A q \in Writers \ {p} :
       ( /\ Returned(p) /\ Returned(q)
         /\ last.op = "save" /\ last.caller = q
         /\ ~HasMessage(proc[q].loaded, proc[p].msg.message_id) )
       => /\ HasMessage(DiskDoc, proc[q].msg.message_id)
          /\ ~HasMessage(DiskDoc, proc[p].msg.message_id)

C10_Witness ==
    \E p \in Writers : \E q \in Writers \ {p} :
       /\ Returned(p) /\ Returned(q)
       /\ proc[p].msg.to_agent # proc[q].msg.to_agent
       /\ last.op = "save" /\ last.caller = q
       /\ HasMessage(DiskDoc, proc[q].msg.message_id)
       /\ ~HasMessage(DiskDoc, proc[p].msg.message_id)

(***************************************************************************)
(* The marketplace, one call at a time: the listings, the orders and the   *)
(* notifications create_order and fulfill_order send.  The clock stands    *)
(* still.                                                                  *)
(***************************************************************************)
\* How many orders a run creates, and how many fulfill_order calls succeed.
MaxOrders == 2
MaxFulfills == 2

\* The fulfill_order calls that have sent their notification: a create_order
\* takes two fresh ids, a fulfill_order one.
Fulfilled == nextId - 2 * Cardinality(DOMAIN orders)

NextOrders ==
    \/ /\ pending.caller = NoValue
       /\ \E service \in NewListings : PublishService(Provider, service)
    \/ /\ Cardinality(DOMAIN orders) < MaxOrders
       /\ \E service_id \in ServiceIds \cup {UnknownService} :
          \E params \in GivenParams :
             CreateOrderBegin(Customer, service_id, params)
    \/ CreateOrderEnd
    \/ /\ Fulfilled < MaxFulfills
       /\ \E self \in AgentIds : \E order_id \in 1..(nextId + 1) :
          \E outcome \in GivenOutcomes :
             FulfillOrder(self, order_id, outcome[1], outcome[2])

SpecOrders == Init /\ [][NextOrders]_vars

(***************************************************************************)
(* Properties of the marketplace.                                          *)
(***************************************************************************)
\* The listing stored under a service id.
Listing(service_id) == Services(marketplace)[service_id]

\* C12: an order enters the orders store with price_paid equal to the price
\* its listing has at that moment, and no step changes the price_paid of a
\* stored order or removes the order: not fulfill_order, and not a
\* publish_service that stores another price under the same service_id.
C12_PricePaidIsSnapshot ==
    [][ /\ \A o \in DOMAIN orders' \ DOMAIN orders :
              orders'[o].price_paid = Listing(orders'[o].service_id).price
        /\ \A o \in DOMAIN orders :
              /\ o \in DOMAIN orders'
              /\ orders'[o].price_paid = orders[o].price_paid ]_vars

\* An order has been fulfilled after its listing's price had changed.
C12_Witness ==
    /\ last.op = "fulfill_order"
    /\ last.error = NoValue
    /\ orders[last.order].price_paid # Listing(last.service).price

\* The statuses fulfill_order leaves an order in.
Terminal == {"completed", "failed"}

\* C13: an order enters the store pending; once it is completed or failed no
\* step changes its status, result, error or completed_at, whoever calls
\* fulfill_order on it again; and no step removes an order.
C13_OrdersMutatedOnce ==
    [][ /\ \A o \in DOMAIN orders' \ DOMAIN orders :
              orders'[o].status = "pending"
        /\ \A o \in DOMAIN orders :
              /\ o \in DOMAIN orders'
              /\ orders[o].status \in Terminal =>
                    /\ orders'[o].status = orders[o].status
                    /\ orders'[o].result = orders[o].result
                    /\ orders'[o].error = orders[o].error
                    /\ orders'[o].completed_at = orders[o].completed_at ]_vars

\* C14: every stored order is pending, completed or failed, and the status
\* of an order changes only from pending to completed or from pending to
\* failed.
C14_OnlyPendingToTerminal ==
    [][ /\ \A o \in DOMAIN orders' :
              orders'[o].status \in {"pending"} \cup Terminal
        /\ \A o \in DOMAIN orders \cap DOMAIN orders' :
              orders'[o].status # orders[o].status =>
                 /\ orders[o].status = "pending"
                 /\ orders'[o].status \in Terminal ]_vars

\* C15: create_order fails with a ValueError exactly when the service_id is
\* not in the marketplace, and fulfill_order exactly when the order_id is not
\* in the orders store; a call that fails leaves every store document as it
\* was: no order, no listing counter and no inbox changes.
C15_NotFoundWritesNothing ==
    [][ /\ (last'.op = "create_order" /\ last'.error = "ValueError") =>
              /\ last'.service \notin DOMAIN Services(marketplace)
              /\ StoreDocs' = StoreDocs
        /\ last'.op = "create_order_begin" =>
              last'.service \in DOMAIN Services(marketplace)
        /\ last'.op = "fulfill_order" =>
              /\ last'.error = "ValueError" <=> last'.order \notin DOMAIN orders
              /\ last'.error = "ValueError" => StoreDocs' = StoreDocs ]_vars

\* A create_order for an unknown service has failed while the stores hold a
\* fulfilled order, its listing and the notifications.
C15_Witness ==
    /\ last.op = "create_order"
    /\ last.error = "ValueError"
    /\ \E o \in DOMAIN orders : orders[o].status \in Terminal
    /\ DOMAIN messages = AgentIds

\* The inbox of an agent in a messages document.
Inbox(data, agent) == Get(data, agent, <<>>)

\* new is old with one message appended, after the queue limit has taken
\* entries from the front of old.
AppendsOne(old, new) ==
    /\ Len(new) >= 1
    /\ \E k \in 0..Len(old) :
          SubSeq(new, 1, Len(new) - 1) = SubSeq(old, k + 1, Len(old))
    /\ new[Len(new)] \notin Range(old)

\* C16: a create_order for a known service_id first stores exactly one new
\* order (pending, its customer the caller, its provider and price_paid the
\* agent_id and the price of the listing, nothing else in the stores
\* changed) and then appends exactly one request message carrying the
\* order_id, the service_id and the params to the provider's inbox and to no
\* other; no inbox ever holds a notification of an order that is not in the
\* orders store.
C16_CreateOrderStoresThenNotifies ==
    [][ /\ last'.op = "create_order_begin" =>
              LET o == last'.order
                  listing == Listing(last'.service) IN
              /\ o \notin DOMAIN orders
              /\ DOMAIN orders' = DOMAIN orders \cup {o}
              /\ \A x \in DOMAIN orders : orders'[x] = orders[x]
              /\ orders'[o].order_id = o
              /\ orders'[o].service_id = last'.service
              /\ orders'[o].status = "pending"
              /\ orders'[o].customer_agent_id = last'.caller
              /\ orders'[o].provider_agent_id = listing.agent_id
              /\ orders'[o].price_paid = listing.price
              /\ orders'[o].params =
                    (IF last'.params = None THEN EmptyParams ELSE last'.params)
              /\ <<messages, marketplace, knowledge>>' =
                    <<messages, marketplace, knowledge>>
        /\ (last'.op = "create_order" /\ last'.error = NoValue) =>
              LET o == last'.order
                  to == orders[o].provider_agent_id
                  new == Inbox(messages', to)
                  m == new[Len(new)] IN
              /\ last.op = "create_order_begin" /\ last.order = o
              /\ AppendsOne(Inbox(messages, to), new)
              /\ \A a \in (DOMAIN messages \cup DOMAIN messages') \ {to} :
                    Inbox(messages', a) = Inbox(messages, a)
              /\ m.message_type = "request"
              /\ m.to_agent = to
              /\ m.body = [order_id |-> o, service_id |-> orders[o].service_id,
                           params |-> orders[o].params]
              /\ <<orders, marketplace, knowledge>>' =
                    <<orders, marketplace, knowledge>>
        /\ \A m \in StoredMessages(messages') :
              m.body.order_id \in DOMAIN orders' ]_vars

\* A second order has been created, with params, and its notification sent.
C16_Witness ==
    /\ last.op = "create_order"
    /\ last.error = NoValue
    /\ Cardinality(DOMAIN orders) = 2
    /\ orders[last.order].params # EmptyParams
    /\ Len(Inbox(messages, orders[last.order].provider_agent_id)) = 2

\* C17: a fulfill_order on an order whose listing exists adds exactly 1 to
\* the listing's total_orders, whether the order completes or fails, and
\* adds the order's price_paid to total_revenue when the order completes and
\* nothing when it fails.
C17_FulfillCountsOrderAndRevenue ==
    [][ (/\ last'.op = "fulfill_order"
         /\ last'.error = NoValue
         /\ orders[last'.order].service_id \in DOMAIN Services(marketplace)) =>
           LET o == last'.order
               sid == orders[o].service_id
               before == Services(marketplace)[sid]
               after == Services(marketplace')[sid] IN
           /\ after.total_orders = before.total_orders + 1
           /\ orders'[o].status = "completed" =>
                 after.total_revenue =
                    before.total_revenue + orders[o].price_paid
           /\ orders'[o].status = "failed" =>
                 after.total_revenue = before.total_revenue ]_vars

\* An order has failed after another fulfill_order had completed one: the
\* listing counts both and holds the revenue of one.
C17_Witness ==
    /\ last.op = "fulfill_order"
    /\ last.error = NoValue
    /\ orders[last.order].status = "failed"
    /\ Listing(last.service).total_orders = 2
    /\ Listing(last.service).total_revenue > 0

\* C18: a fulfill_order on a stored order sets it to failed and records the
\* error when it is given a (non-empty) error, and otherwise sets it to
\* completed and records the result; either way completed_at becomes the
\* time of the call and exactly one response message carrying the order_id
\* and the new status is appended to the customer's inbox, and to no other.
C18_FulfillSetsStatusAndNotifies ==
    [][ (last'.op = "fulfill_order" /\ last'.error = NoValue) =>
           LET o == last'.order
               to == orders[o].customer_agent_id
               new == Inbox(messages', to)
               m == new[Len(new)] IN
           /\ last'.failure \notin {None, NoValue} =>
                 /\ orders'[o].status = "failed"
                 /\ orders'[o].error = last'.failure
           /\ last'.failure \in {None, NoValue} =>
                 /\ orders'[o].status = "completed"
                 /\ orders'[o].result = last'.given
           /\ orders'[o].completed_at = now
           /\ orders'[o].completed_at # NotCompleted
           /\ AppendsOne(Inbox(messages, to), new)
           /\ \A a \in (DOMAIN messages \cup DOMAIN messages') \ {to} :
                 Inbox(messages', a) = Inbox(messages, a)
           /\ m.message_type = "response"
           /\ m.to_agent = to
           /\ m.body.order_id = o
           /\ m.body.status = orders'[o].status ]_vars

\* A pending order has been failed by a call that was given a result and an
\* error.
C18_Witness ==
    /\ last.op = "fulfill_order"
    /\ last.error = NoValue
    /\ last.failure = "boom"
    /\ last.given = "r1"
    /\ orders[last.order].status = "failed"
    /\ orders[last.order].result = None

(***************************************************************************)
(* The knowledge base, one call at a time.                                 *)
(***************************************************************************)
NextKnowledge ==
    \/ \E self \in AgentIds : \E entry \in NewEntries(now) :
          PublishKnowledge(self, entry)
    \/ \E self \in Endorsers :
       \E entry_id \in {ContentHash(c) : c \in Contents} \cup {UnknownEntry} :
          EndorseKnowledge(self, entry_id)
    \/ \E self \in AgentIds : CleanupExpired(self)
    \/ Tick

SpecKnowledge == Init /\ [][NextKnowledge]_vars

(***************************************************************************)
(* Properties of the knowledge base.                                       *)
(***************************************************************************)
\* The stored entries with a given content.
EntriesWith(data, content) ==
    {e \in DOMAIN Entries(data) : Entries(data)[e].content = content}

C20_ReplacedOnlyByHigherConfidence ==
    [][ (/\ last'.op = "publish_knowledge"
         /\ last'.entry \in DOMAIN Entries(knowledge)) =>
           LET id == last'.entry
               old == Entries(knowledge)[id]
               new == Entries(knowledge')[id] IN
           /\ DOMAIN Entries(knowledge') = DOMAIN Entries(knowledge)
           /\ \A e \in DOMAIN Entries(knowledge) \ {id} :
                 Entries(knowledge')[e] = Entries(knowledge)[e]
           /\ last'.confidence <= old.confidence => new = old
           /\ last'.confidence > old.confidence =>
                 /\ new.confidence = last'.confidence
                 /\ new.published_by = last'.caller
                 /\ new.published_at = now ]_vars

\* An endorsed entry has been published again, later, by another agent and
\* with no higher a confidence than it is stored with: the stored copy is
\* the old one, endorsement included.
C20_Witness ==
    /\ last.op = "publish_knowledge"
    /\ last.stored >= last.confidence
    /\ Entries(knowledge)[last.entry].published_by # last.caller
    /\ Entries(knowledge)[last.entry].published_at < now
    /\ Entries(knowledge)[last.entry].endorsements # <<>>

(***************************************************************************)
(* SpecLoad: a store file is written, cut, damaged, locked or removed, and *)
(* load and the read operations are called on whatever it holds.           *)
(***************************************************************************)
NextLoad ==
    \/ \E store \in StoreNames :
       \E content \in Texts(StoreKey(store, Reader)) :
          WriteFile(store, content)
    \/ \E store \in StoreNames : MakeUnreadable(store)
    \/ \E store \in StoreNames : RemoveFile(store)
    \/ \E store \in StoreNames : LoadStore(store)
    \/ \E store \in StoreNames : \E drain \in BOOLEAN :
          ReadStore(Reader, store, drain)

SpecLoad == Init /\ [][NextLoad]_vars

ReadOperations == {ReadOperation[store] : store \in StoreNames}
\* The file gives no JSON value: it is absent, may not be read, or its bytes
\* are not the text of a value (cut short, or not text at all).
Unusable(file, key) ==
    \/ ~file.exists
    \/ ~file.readable
    \/ file.content \notin {Dumps(v) : v \in Values(key)}

\* C11: when the file of a store is absent, unreadable or holds corrupt or
\* partial content, load raises nothing and returns the empty mapping, and
\* discover_agents, list_services, query_knowledge and check_messages raise
\* nothing and return an empty list.
C11_UnusableFileReadsEmpty ==
    [][(/\ last'.op \in {"load"} \cup ReadOperations
        /\ Unusable(disk[last'.store], StoreKey(last'.store, Reader)))
       => /\ last'.error = NoValue
          /\ last'.op = "load" => last'.value = EmptyDict
          /\ last'.op \in ReadOperations => last'.returned = <<>>]_vars

(***************************************************************************)
(* SpecEntries: entries are published under the content hash or under an   *)
(* entry_id of the caller's choosing, and expire.                          *)
(***************************************************************************)
\* The agent that publishes, where one does.
Publisher == "a"

NextEntries ==
    \/ \E entry \in GivenEntries(now) : PublishKnowledge(Publisher, entry)
    \/ CleanupExpired(Publisher)
    \/ Tick

SpecEntries == Init /\ [][NextEntries]_vars

\* C21: every stored entry is stored under the content hash of its own
\* content, and no two stored entries have the same content.
C21_EntriesKeyedByContentHash ==
    LET entries == Entries(knowledge) IN
    /\ \A id \in DOMAIN entries : id = ContentHash(entries[id].content)
    /\ \A id1, id2 \in DOMAIN entries :
          entries[id1].content = entries[id2].content => id1 = id2

(***************************************************************************)
(* SpecOpinions: entries are published, endorsed and disputed.  The clock  *)
(* stands still.                                                           *)
(***************************************************************************)
\* The most dispute records a run leaves in the store.
MaxDisputes == 2
\* The dispute records in the store.
RECURSIVE DisputeCount(_, _)
DisputeCount(entries, ids) ==
    IF ids = {} THEN 0
    ELSE LET id == CHOOSE id \in ids : TRUE
         IN  Len(entries[id].disputes) + DisputeCount(entries, ids \ {id})

NextOpinions ==
    \/ \E entry \in NewEntries(now) :
          /\ entry.expires_at > now
          /\ PublishKnowledge(Publisher, entry)
    \/ \E self \in AgentIds :
       \E entry_id \in DOMAIN Entries(knowledge) \cup {UnknownEntry} :
          EndorseKnowledge(self, entry_id)
    \/ \E self \in Disputers : \E reason \in Reasons :
       \E entry_id \in DOMAIN Entries(knowledge) \cup {UnknownEntry} :
          /\ DisputeCount(Entries(knowledge), DOMAIN Entries(knowledge))
                < MaxDisputes
          /\ DisputeKnowledge(self, entry_id, reason)

SpecOpinions == Init /\ [][NextOpinions]_vars

\* How often an agent occurs in a list of endorsements.
Occurrences(endorsements, agent) ==
    Cardinality({i \in DOMAIN endorsements : endorsements[i] = agent})

DisputesOf(entry, agent) ==
    {i \in DOMAIN entry.disputes :
        \E reason \in Reasons :
           entry.disputes[i] = DisputeRecord(agent, reason)}

\* C23: a dispute_knowledge of a stored entry by an agent that has disputed
\* it, with whatever reason, leaves the entry as it was; one by an agent
\* that has not disputed it, whoever else has, adds that agent's record and
\* lowers the confidence by one step (not below 0).
C23_DisputedAtMostOncePerAgent ==
    [][(/\ last'.op = "dispute_knowledge"
        /\ last'.entry \in DOMAIN Entries(knowledge))
       => LET old == Entries(knowledge)[last'.entry]
              new == Entries(knowledge')[last'.entry]
          IN  IF DisputesOf(old, last'.caller) # {}
              THEN new = old
              ELSE /\ new.disputes =
                         Append(old.disputes,
                                DisputeRecord(last'.caller, last'.given))
                   /\ new.confidence = Max(0, old.confidence - DisputeStep)]_vars

(***************************************************************************)
(* SpecQuery: entries with categories and tags are published, age, expire  *)
(* and are swept, and the knowledge base is queried.                       *)
(***************************************************************************)
\* A limit larger than the store (the default of query_knowledge).
DefaultLimit == 20
\* The queries made: no filter, one filter or all of them, and a limit.
AllFilters ==
    [category |-> "warning", tags |-> {"t2", "t3"}, min_confidence |-> 65,
     search_text |-> <<"a", "B">>]
NoFilters ==
    [category |-> NoValue, tags |-> {}, min_confidence |-> 0,
     search_text |-> NoFilter]
Queries ==
    {[category |-> f.category, tags |-> f.tags,
      min_confidence |-> f.min_confidence, search_text |-> f.search_text,
      limit |-> n] :
        f \in {NoFilters, AllFilters}
                 \cup {[NoFilters EXCEPT ![k] = AllFilters[k]] :
                          k \in DOMAIN NoFilters},
        n \in {1, DefaultLimit}}

\* The entries published: with the one content, entries of the default
\* category without tags and entries of another category with tags; with
\* the other content, entries of the latter kind that do not expire.
QueryEntries(t) ==
    {e \in TaggedEntries(t) :
        /\ e.category = "strategy" <=> e.tags = {}
        /\ e.content # "c1" => e.category = "warning" /\ e.expires_at > t}

NextQuery ==
    \/ \E entry \in QueryEntries(now) : PublishKnowledge(Publisher, entry)
    \/ CleanupExpired(Publisher)
    \/ Tick
    \/ \E entry_id \in DOMAIN Entries(knowledge) :
          EndorseKnowledge(Reader, entry_id)
    \/ \E q \in Queries : QueryKnowledge(Reader, q)

SpecQuery == Init /\ [][NextQuery]_vars

\* The relevance score of the specification: the confidence plus 0.05 for
\* each endorsement, minus 0.10 for each dispute, plus a bonus that falls
\* from 0.2 at publication to 0 at 168 hours (two ticks), within [0, 1].
Bonus(e, t) ==
    IF t - e.published_at >= 2 THEN 0 ELSE 20 - 10 * (t - e.published_at)
Score(e, t) ==
    LET sum == e.confidence + 5 * Len(e.endorsements)
                   - 10 * Len(e.disputes) + Bonus(e, t)
    IN  IF sum < 0 THEN 0 ELSE IF sum > 100 THEN 100 ELSE sum

\* Whether the text of a content holds a search text, whatever the case.
Holds(content, search_text) ==
    LET fold(c) == IF c \in {"A", "a"} THEN "a"
                   ELSE IF c \in {"B", "b"} THEN "b"
                   ELSE IF c \in {"C", "c"} THEN "c" ELSE c
        text == ContentText(content)
    IN  \E start \in 1..Len(text) :
           /\ start + Len(search_text) - 1 <= Len(text)
           /\ \A k \in 1..Len(search_text) :
                 fold(text[start + k - 1]) = fold(search_text[k])

\* Whether entry e is one the query q asks for at clock t.
Satisfies(e, q, t) ==
    /\ t <= e.expires_at
    /\ Score(e, t) >= q.min_confidence
    /\ q.category = NoValue \/ e.category = q.category
    /\ q.tags = {} \/ q.tags \cap e.tags # {}
    /\ q.search_text = NoFilter \/ Holds(e.content, q.search_text)

\* C24 as the specification states it: a query_knowledge right after the
\* publish_knowledge of an entry that is not expired, with filters the entry
\* satisfies and a limit that is not smaller than the number of stored
\* entries, returns an entry with the content of that entry, whatever was
\* stored before the publish.
C24_PublishedEntryIsFound ==
    [][(/\ last.op = "publish_knowledge"
        /\ last'.op = "query_knowledge"
        /\ Satisfies(last.given, last'.given, now)
        /\ last'.given.limit >= Cardinality(DOMAIN Entries(knowledge)))
       => \E i \in DOMAIN last'.returned :
             last'.returned[i].content = last.content]_vars

\* C24, amended: the same, for a publish_knowledge that stored the entry
\* (nothing was stored under its entry_id, or a copy of strictly lower
\* confidence).
C24_StoredEntryIsFound ==
    [][(/\ last.op = "publish_knowledge"
        /\ last.branch \in {"new", "replaced"}
        /\ last'.op = "query_knowledge"
        /\ Satisfies(last.given, last'.given, now)
        /\ last'.given.limit >= Cardinality(DOMAIN Entries(knowledge)))
       => \E i \in DOMAIN last'.returned :
             last'.returned[i].content = last.content]_vars

\* A query with every filter set has found, next to another entry, the entry
\* that the call before it stored in place of a copy of lower confidence.
C24_Witness ==
    /\ last.op = "query_knowledge"
    /\ last.redo = "replaced"
    /\ last.given.category # NoValue
    /\ last.given.tags # {}
    /\ last.given.min_confidence > 0
    /\ last.given.search_text # NoFilter
    /\ Len(last.returned) = 1
    /\ last.returned[1].content = last.content
    /\ Cardinality(DOMAIN Entries(knowledge)) = 2

GivenManifests(self) ==
    {m \in NewManifests : self = "a" => m.identity.agent_id = self}

\* The arguments of discover_agents: each filter left out or given, a
\* threshold that the first tick exceeds or the default one.
DiscoverQueries ==
    [agent_type : {NoValue, "coder"}, tags : {{}, {"t2", "t3"}},
     exclude_self : BOOLEAN, online_only : BOOLEAN,
     stale_threshold_hours : {0, DefaultStaleThreshold}]

NextRegistry ==
    \/ \E self \in AgentIds : \E given \in GivenManifests(self) \cup {NoManifest} :
          Register(self, given)
    \/ \E self \in AgentIds : Heartbeat(self)
    \/ ForeignHeartbeat("a")
    \/ Tick
    \/ \E q \in DiscoverQueries : DiscoverAgents(Reader, q)

SpecRegistry == Init /\ [][NextRegistry]_vars

\* C26: after register the record of the caller holds exactly the manifest,
\* registered_at and last_heartbeat at the clock of the call and the status
\* online; the manifest is the one handed over, else the one the session
\* had, else an empty one of the caller's identity; the records of the other
\* agents are as they were.
C26_RegisterReplacesOwnRecord ==
    [][last'.op = "register" =>
          LET self == last'.caller
              record == agents'[self]
              expected ==
                  IF last'.given # NoManifest THEN last'.given
                  ELSE IF manifest[self] # NoManifest THEN manifest[self]
                  ELSE [identity |-> Identity(self), capabilities |-> <<>>]
          IN  /\ DOMAIN record = {"manifest", "registered_at",
                                  "last_heartbeat", "status"}
              /\ record.manifest.identity = expected.identity
              /\ record.manifest.capabilities = expected.capabilities
              /\ record.registered_at = now
              /\ record.last_heartbeat = now
              /\ record.status = "online"
              /\ DOMAIN agents' = DOMAIN agents \cup {self}
              /\ \A other \in DOMAIN agents \ {self} :
                    agents'[other] = agents[other]]_vars

\* An agent has registered again without a manifest, after a tick, and its
\* record holds the manifest with capabilities that its session had; another
\* agent has a record.
C26_Witness ==
    /\ last.op = "register"
    /\ last.given = NoManifest
    /\ last.redo = "registered"
    /\ now = MaxTime
    /\ agents[last.caller].manifest.capabilities # <<>>
    /\ agents[last.caller].registered_at = now
    /\ DOMAIN agents = AgentIds

\* Whether a record of the registry is one the arguments q of a
\* discover_agents call by `self` ask for at clock t.
Matches(agent_id, record, self, q, t) ==
    /\ "manifest" \in DOMAIN record
    /\ q.exclude_self => agent_id # self
    /\ q.agent_type = NoValue
          \/ record.manifest.identity.agent_type = q.agent_type
    /\ q.tags = {}
          \/ \E g \in DOMAIN record.manifest.capabilities :
                \E a \in DOMAIN record.manifest.capabilities[g] :
                   q.tags \cap record.manifest.capabilities[g][a] # {}
    /\ q.online_only =>
          /\ record.last_heartbeat # BadTimestamp
          /\ t - record.last_heartbeat <= q.stale_threshold_hours

\* C27: discover_agents returns one manifest for each record of the
\* registry that has a manifest and passes the filters given (the agent
\* type, a tag in common, and under online_only a last_heartbeat that parses
\* and is not older than the threshold), the caller's record left out unless
\* exclude_self is false, and nothing else; a record that heartbeat alone
\* made is not among them.
C27_DiscoverReturnsTheMatches ==
    [][last'.op = "discover_agents" =>
          LET q == last'.given
              r == last'.returned
              asked == {id \in DOMAIN agents :
                           Matches(id, agents[id], last'.caller, q, now)}
          IN  /\ Len(r) = Cardinality(asked)
              /\ \E ids \in [DOMAIN r -> asked] :
                    /\ \A i, j \in DOMAIN r : ids[i] = ids[j] => i = j
                    /\ \A i \in DOMAIN r :
                          /\ r[i].identity = agents[ids[i]].manifest.identity
                          /\ r[i].capabilities =
                                 agents[ids[i]].manifest.capabilities]_vars

\* A discover_agents with every filter given and exclude_self false has
\* returned the manifest of the other agent and not the caller's record,
\* which heartbeat alone made.
C27_Witness ==
    /\ last.op = "discover_agents"
    /\ ~last.given.exclude_self
    /\ last.given.online_only
    /\ last.given.agent_type # NoValue
    /\ last.given.tags # {}
    /\ Len(last.returned) = 1
    /\ last.caller \in DOMAIN agents
    /\ "manifest" \notin DOMAIN agents[last.caller]
    /\ now = MaxTime

(***************************************************************************)
(* Broadcasts over a registry that registrations and heartbeats build.     *)
(***************************************************************************)
\* The message ids a run of SpecBroadcast hands out.
MaxBroadcastSends == 3

\* The (subject, body) pairs handed to broadcast.
Announcements == {<<"s1", "b1">>, <<"s2", "b2">>}

NextBroadcast ==
    \/ \E self \in AgentIds : \E given \in NewManifests \cup {NoManifest} :
          Register(self, given)
    \/ \E self \in AgentIds : Heartbeat(self)
    \/ \E self \in AgentIds : \E pair \in Announcements :
          /\ nextId + Cardinality(DOMAIN agents) <= MaxBroadcastSends
          /\ Broadcast(self, pair[1], pair[2])

SpecBroadcast == Init /\ [][NextBroadcast]_vars

\* The messages of type broadcast with a subject and a body in an inbox.
Broadcasts(inbox, subject, body) ==
    {i \in DOMAIN inbox :
        /\ inbox[i].message_type = "broadcast"
        /\ inbox[i].subject = subject
        /\ inbox[i].body = body}

\* C28: a broadcast leaves the caller's inbox as it was; the inbox of every
\* other agent of the registry that has a manifest is the inbox it had with
\* one message more, of type broadcast with the subject and the body given;
\* no other inbox changes; and the ids returned are as many as those agents
\* and differ from one another.
C28_BroadcastReachesEachOtherAgentOnce ==
    [][last'.op = "broadcast" =>
          LET self == last'.caller
              recipients == {id \in DOMAIN agents :
                                id # self /\ "manifest" \in DOMAIN agents[id]}
              inbox(data, id) == IF id \in DOMAIN data THEN data[id] ELSE <<>>
          IN  /\ inbox(messages', self) = inbox(messages, self)
              /\ \A id \in recipients :
                    /\ Len(inbox(messages', id)) = Len(inbox(messages, id)) + 1
                    /\ SubSeq(inbox(messages', id), 1,
                              Len(inbox(messages, id))) = inbox(messages, id)
                    /\ Len(inbox(messages', id))
                          \in Broadcasts(inbox(messages', id),
                                         last'.given.subject, last'.given.body)
              /\ \A id \in DOMAIN messages' \ recipients :
                    inbox(messages', id) = inbox(messages, id)
              /\ Len(last'.returned) = Cardinality(recipients)
              /\ \A i, j \in DOMAIN last'.returned :
                    last'.returned[i] = last'.returned[j] => i = j]_vars

(***************************************************************************)
(* cleanup_expired over stores that every kind of call has filled.         *)
(***************************************************************************)
\* The message ids a run of SpecCleanup hands out.
MaxCleanupSends == 4

\* The messages sent: to an agent, with each lifetime.
CleanupMessages(id, t) ==
    {m \in PlainMessages(id, t) : m.to_agent # NoValue}

\* The entries published: of one confidence, with the default expires_at,
\* with one that the next tick passes, or with one that does not parse.
CleanupEntries(t) ==
    {e \in NewEntries(t) : e.confidence = 50}
        \cup {[e EXCEPT !.expires_at = BadTimestamp] :
                 e \in {n \in NewEntries(t) :
                           n.confidence = 50 /\ n.content = "c1"}}

\* The other stores are filled first: a registration, a listing and an
\* order, whose request is the first message stored.
NextCleanup ==
    \/ /\ agents = EmptyDoc
       /\ Register(Provider, NoManifest)
    \/ /\ agents # EmptyDoc /\ marketplace = EmptyDoc
       /\ \E service \in {l \in NewListings :
                             l.agent_id = NoValue /\ l.price = 1} :
             PublishService(Provider, service)
    \/ /\ marketplace # EmptyDoc /\ orders = EmptyDoc
       /\ CreateOrderBegin(Customer, "s1", None)
    \/ CreateOrderEnd
    \/ /\ orders # EmptyDoc /\ pending = NoPending
       /\ \/ /\ nextId < MaxCleanupSends
             /\ \E message \in CleanupMessages(nextId + 1, now) :
                   SendMessage(Publisher, message)
          \/ \E entry \in CleanupEntries(now) :
                PublishKnowledge(Publisher, entry)
          \/ CleanupExpired(Customer)
          \/ Tick

SpecCleanup == Init /\ [][NextCleanup]_vars

\* An entry's expires_at parses and the clock t is past it.
Lapsed(e, t) == e.expires_at >= 0 /\ t > e.expires_at

\* C29: cleanup_expired leaves in every inbox the messages whose age does
\* not exceed their ttl_seconds, as they were and in the order they had, and
\* in the knowledge store the entries whose expires_at has not passed, as
\* they were; it adds and removes no inbox; and the agents, marketplace and
\* orders documents are what they were.
C29_CleanupRemovesExactlyTheExpired ==
    [][last'.op = "cleanup" =>
          /\ DOMAIN messages' = DOMAIN messages
          /\ \A id \in DOMAIN messages :
                messages'[id] =
                    SelectSeq(messages[id], LAMBDA m : ~Overdue(m, now))
          /\ DOMAIN Entries(knowledge') =
                 {id \in DOMAIN Entries(knowledge) :
                     ~Lapsed(Entries(knowledge)[id], now)}
          /\ \A id \in DOMAIN Entries(knowledge') :
                Entries(knowledge')[id] = Entries(knowledge)[id]
          /\ agents' = agents
          /\ marketplace' = marketplace
          /\ orders' = orders]_vars

\* A cleanup_expired has removed a message and an entry and has left two
\* messages in an inbox, an entry with an expires_at that does not parse,
\* and the registry, the listing and the order.
C29_Witness ==
    /\ last.op = "cleanup"
    /\ last.skipped = 1
    /\ last.result = 1
    /\ \E id \in DOMAIN messages : Len(messages[id]) = 2
    /\ \E id \in DOMAIN Entries(knowledge) :
          Entries(knowledge)[id].expires_at = BadTimestamp
    /\ agents # EmptyDoc
    /\ Services(marketplace) # EmptyDoc
    /\ orders # EmptyDoc

(***************************************************************************)
(* my_stats over a marketplace whose listings change their status.         *)
(***************************************************************************)
\* The listings handed to publish_service: a new one of either status, or
\* the stored one with its counters and either status.
StatsListings ==
    LET new == CHOOSE l \in NewListings : l.agent_id = NoValue /\ l.price = 1
        given == {new} \cup {Services(marketplace)[sid] :
                                sid \in DOMAIN Services(marketplace)}
    IN  {[l EXCEPT !.status = status] :
            l \in given, status \in {"active", "paused"}}

NextStats ==
    \/ /\ pending.caller = NoValue
       /\ \E service \in StatsListings : PublishService(Provider, service)
    \/ /\ Cardinality(DOMAIN orders) < MaxOrders
       /\ \E service_id \in ServiceIds : CreateOrderBegin(Customer, service_id, None)
    \/ CreateOrderEnd
    \/ /\ Fulfilled < MaxFulfills
       /\ \E order_id \in DOMAIN orders : \E outcome \in GivenOutcomes :
             FulfillOrder(Provider, order_id, outcome[1], outcome[2])
    \/ \E self \in AgentIds : MyStats(self)
    \/ Tick

SpecStats == Init /\ [][NextStats]_vars

\* The revenue of the listings of a marketplace document that an agent
\* published.
RECURSIVE Revenue(_, _, _)
Revenue(data, ids, agent_id) ==
    IF ids = {} THEN 0
    ELSE LET id == CHOOSE id \in ids : TRUE
         IN  (IF Services(data)[id].agent_id = agent_id
              THEN Services(data)[id].total_revenue ELSE 0)
                 + Revenue(data, ids \ {id}, agent_id)

\* What an agent paid for its completed orders.
RECURSIVE Spent(_, _, _)
Spent(data, ids, agent_id) ==
    IF ids = {} THEN 0
    ELSE LET id == CHOOSE id \in ids : TRUE
         IN  (IF data[id].customer_agent_id = agent_id
                    /\ data[id].status = "completed"
              THEN data[id].price_paid ELSE 0)
                 + Spent(data, ids \ {id}, agent_id)

\* C30: my_stats returns, for its caller, the revenue of all its listings
\* whatever their status, what it paid for its completed orders, the
\* numbers of orders it placed and of orders it received, and the number of
\* messages in its inbox that are not expired.
C30_StatsCountEveryListing ==
    [][last'.op = "stats" =>
          LET self == last'.caller
              stats == last'.value
              inbox == IF self \in DOMAIN messages THEN messages[self] ELSE <<>>
          IN  /\ stats.total_revenue =
                     Revenue(marketplace, DOMAIN Services(marketplace), self)
              /\ stats.total_spent = Spent(orders, DOMAIN orders, self)
              /\ stats.orders_placed =
                     Cardinality({id \in DOMAIN orders :
                                     orders[id].customer_agent_id = self})
              /\ stats.orders_received =
                     Cardinality({id \in DOMAIN orders :
                                     orders[id].provider_agent_id = self})
              /\ stats.pending_messages =
                     Cardinality({i \in DOMAIN inbox :
                                     ~Overdue(inbox[i], now)})]_vars

(***************************************************************************)
(* SpecListings: listings under two service ids, published by either       *)
(* agent, ordered and fulfilled.                                           *)
(***************************************************************************)
\* The service ids callers give their listings in a run of SpecListings.
ListingIds == {"s1", "s2"}

\* The listings handed to publish_service: any agent_id; either price
\* under the first service id, one price under the other.
GivenListings ==
    {g \in {[l EXCEPT !.service_id = sid] :
                l \in NewListings, sid \in ListingIds} :
        g.service_id # "s1" => g.price = 1}

\* The (result, error) pairs of a fulfill_order that completes and of one
\* that fails.
PlainOutcomes == {<<"r1", None>>, <<None, "boom">>}

NextListings ==
    \/ /\ pending.caller = NoValue
       /\ \E self \in AgentIds : \E service \in GivenListings :
             PublishService(self, service)
    \/ /\ Cardinality(DOMAIN orders) < MaxOrders
       /\ \E service_id \in ListingIds :
             CreateOrderBegin(Customer, service_id, None)
    \/ CreateOrderEnd
    \/ /\ Fulfilled < MaxFulfills
       /\ \E order_id \in DOMAIN orders : \E outcome \in PlainOutcomes :
             FulfillOrder(Provider, order_id, outcome[1], outcome[2])

SpecListings == Init /\ [][NextListings]_vars

\* C31 as the specification states it: after publish_service the listing is
\* stored under its service_id with the caller for agent_id, and every
\* listing the marketplace held is still there as it was.
C31_PublishKeepsEveryListing ==
    [][last'.op = "publish_service" =>
          /\ last'.service \in DOMAIN Services(marketplace')
          /\ Services(marketplace')[last'.service].agent_id = last'.caller
          /\ \A sid \in DOMAIN Services(marketplace) :
                /\ sid \in DOMAIN Services(marketplace')
                /\ Services(marketplace')[sid] = Services(marketplace)[sid]]_vars

\* C31, amended: after publish_service the listing stored under its
\* service_id is the one handed over with the caller for agent_id, whatever
\* was stored there; and every listing under another service_id is still
\* there as it was.
C31_PublishReplacesOneListing ==
    [][last'.op = "publish_service" =>
          /\ DOMAIN Services(marketplace') =
                 DOMAIN Services(marketplace) \cup {last'.service}
          /\ LET stored == Services(marketplace')[last'.service]
                 given == last'.given
             IN  /\ stored.agent_id = last'.caller
                 /\ stored.service_id = given.service_id
                 /\ stored.price = given.price
                 /\ stored.status = given.status
                 /\ stored.total_orders = given.total_orders
                 /\ stored.total_revenue = given.total_revenue
          /\ \A sid \in DOMAIN Services(marketplace) \ {last'.service} :
                Services(marketplace')[sid] = Services(marketplace)[sid]]_vars

\* An agent has published, under another agent's name, a listing with the
\* service_id of a listing of that agent with a completed order, next to a
\* listing that has revenue.
C31_Witness ==
    /\ last.op = "publish_service"
    /\ last.caller = Customer
    /\ last.from = Provider
    /\ Services(marketplace)[last.service].agent_id = Customer
    /\ Services(marketplace)[last.service].total_orders = 0
    /\ \E id \in DOMAIN orders :
          /\ orders[id].service_id = last.service
          /\ orders[id].provider_agent_id = Provider
          /\ orders[id].status = "completed"
    /\ \E sid \in DOMAIN Services(marketplace) :
          sid # last.service /\ Services(marketplace)[sid].total_revenue > 0

\* The fields of a listing that fulfill_order assigns.
ListingCounters == {"total_orders", "total_revenue"}
\* The fields of an order that fulfill_order assigns.
OrderOutcome == {"status", "result", "error", "completed_at"}

\* C35: fulfill_order changes, on the listing of the order, only total_orders
\* and total_revenue and, on the order, only status, result, error and
\* completed_at; every other order and every other listing is as it was, and
\* none is added or removed.
C35_FulfillChangesCountersAndOutcome ==
    [][last'.op = "fulfill_order" =>
          IF last'.error = "ValueError"
          THEN orders' = orders /\ marketplace' = marketplace
          ELSE /\ DOMAIN orders' = DOMAIN orders
               /\ \A id \in DOMAIN orders :
                     IF id = last'.order
                     THEN /\ DOMAIN orders'[id] = DOMAIN orders[id]
                          /\ \A f \in DOMAIN orders[id] \ OrderOutcome :
                                orders'[id][f] = orders[id][f]
                     ELSE orders'[id] = orders[id]
               /\ DOMAIN Services(marketplace') = DOMAIN Services(marketplace)
               /\ \A sid \in DOMAIN Services(marketplace) :
                     LET before == Services(marketplace)[sid]
                         after == Services(marketplace')[sid]
                     IN  IF sid = orders[last'.order].service_id
                         THEN /\ DOMAIN after = DOMAIN before
                              /\ \A f \in DOMAIN before \ ListingCounters :
                                    after[f] = before[f]
                         ELSE after = before]_vars

\* fulfill_order has completed an order of a listing that was published again
\* at another price since the order was made, with another order and another
\* listing in the stores.
C35_Witness ==
    /\ last.op = "fulfill_order"
    /\ last.error # "ValueError"
    /\ orders[last.order].status = "completed"
    /\ last.service \in DOMAIN Services(marketplace)
    /\ Services(marketplace)[last.service].price # orders[last.order].price_paid
    /\ Services(marketplace)[last.service].total_revenue > 0
    /\ \E id \in DOMAIN orders : id # last.order
    /\ \E sid \in DOMAIN Services(marketplace) : sid # last.service

(***************************************************************************)
(* SpecCounters: listings published once each with zero counters, ordered  *)
(* and fulfilled.                                                          *)
(***************************************************************************)
NextCounters ==
    \/ /\ pending.caller = NoValue
       /\ \E service \in GivenListings :
             /\ service.service_id \notin DOMAIN Services(marketplace)
             /\ PublishService(Provider, service)
    \/ /\ Cardinality(DOMAIN orders) < MaxOrders
       /\ \E service_id \in ListingIds :
             CreateOrderBegin(Customer, service_id, None)
    \/ CreateOrderEnd
    \/ /\ Fulfilled < MaxFulfills
       /\ \E order_id \in DOMAIN orders : \E outcome \in PlainOutcomes :
             FulfillOrder(Provider, order_id, outcome[1], outcome[2])

SpecCounters == Init /\ [][NextCounters]_vars

\* The orders of a listing that have one of the given statuses.
OrdersOf(service_id, statuses) ==
    {id \in DOMAIN orders : /\ orders[id].service_id = service_id
                            /\ orders[id].status \in statuses}

\* The sum of price_paid over a set of orders.
RECURSIVE SumPaid(_)
SumPaid(ids) ==
    IF ids = {} THEN 0
    ELSE LET id == CHOOSE id \in ids : TRUE
         IN  orders[id].price_paid + SumPaid(ids \ {id})

\* C39: between calls, each listing's total_orders is the number of its orders
\* that are completed or failed, and its total_revenue is the sum of
\* price_paid over its completed orders.
C39_CountersMatchOrders ==
    pending.caller = NoValue =>
        \A sid \in DOMAIN Services(marketplace) :
            /\ Services(marketplace)[sid].total_orders =
                   Cardinality(OrdersOf(sid, {"completed", "failed"}))
            /\ Services(marketplace)[sid].total_revenue =
                   SumPaid(OrdersOf(sid, {"completed"}))

(***************************************************************************)
(* SpecExpiry: Message.is_expired read at every age of a stored message.   *)
(***************************************************************************)
\* The last clock tick of a run of SpecExpiry.
MaxAge == 5
\* The timestamps and the ttl_seconds of the messages of a run of SpecExpiry.
GivenTimestamps == {BadTimestamp} \cup 0..2
GivenTtls == 0..3

\* The messages under test: one in the Reader's inbox.
ExpiryMessages ==
    {[message_id |-> 1, from_agent |-> "a", to_agent |-> Reader,
      message_type |-> "request", timestamp |-> ts, ttl_seconds |-> ttl] :
        ts \in GivenTimestamps, ttl \in GivenTtls}

InitExpiry ==
    /\ now = 0
    /\ nextId = 1
    /\ \E m \in ExpiryMessages : messages = Put(EmptyDoc, Reader, <<m>>)
    /\ knowledge = EmptyDoc
    /\ last = NoCall
    /\ marketplace = EmptyDoc
    /\ orders = EmptyDoc
    /\ pending = NoPending
    /\ disk = [store \in StoreNames |-> Absent]
    /\ entryOrder = <<>>
    /\ agents = EmptyDoc
    /\ agentOrder = <<>>
    /\ manifest = [self \in AgentIds |-> NoManifest]
    /\ InitStore

\* The clock of a run of SpecExpiry.
Elapse ==
    /\ now < MaxAge
    /\ now' = now + 1
    /\ last' = [NoCall EXCEPT !.op = "tick"]
    /\ UNCHANGED <<nextId, messages, knowledge, fsVars, tradeVars, disk, entryOrder, registryVars>>

\* message.is_expired, read on the i-th message of an inbox.
ReadIsExpired(self, i) ==
    /\ self \in DOMAIN messages
    /\ i \in 1..Len(messages[self])
    /\ LET m == messages[self][i]
       IN  last' = [NoCall EXCEPT
                      !.op = "is_expired", !.given = m,
                      !.value = [type |-> "bool",
                                 expired |-> IsExpired(m, now)]]
    /\ UNCHANGED <<now, nextId, messages, knowledge, fsVars, tradeVars, disk, entryOrder, registryVars>>

NextExpiry ==
    \/ \E i \in 1..MAX_MESSAGE_QUEUE : ReadIsExpired(Reader, i)
    \/ Elapse

SpecExpiry == InitExpiry /\ [][NextExpiry]_vars

\* is_expired has been read on the message and returned this value.
ReadAs(m, expired) ==
    /\ last.op = "is_expired"
    /\ last.given = m
    /\ last.value.expired = expired

\* C32: is_expired of a message with timestamp t0 and ttl_seconds T is false
\* at every time up to and including t0 + T and true at every later time;
\* once it has been true it is never false again; and it is false at every
\* time for a message whose timestamp cannot be parsed.
C32_ExpiredStrictlyAfterTtl ==
    /\ [][last'.op = "is_expired" =>
             LET m == last'.given
             IN  last'.value.expired =
                    (/\ m.timestamp # BadTimestamp
                     /\ now' > m.timestamp + m.ttl_seconds)]_vars
    /\ \A m \in ExpiryMessages : [](ReadAs(m, TRUE) => []~ReadAs(m, FALSE))

\* is_expired has been read, and was false, at the very time t0 + T of a
\* message with a ttl.
C32_Witness ==
    /\ last.op = "is_expired"
    /\ last.given.timestamp # BadTimestamp
    /\ last.given.ttl_seconds > 0
    /\ now = last.given.timestamp + last.given.ttl_seconds
    /\ ~last.value.expired

\* The fields of a registry record that heartbeat assigns.
HeartbeatFields == {"last_heartbeat", "status"}

\* C33: heartbeat changes, in the registry, only last_heartbeat and status of
\* the caller's record: the other fields of that record and the records of
\* the other agents are as they were; for an agent with no record it creates
\* one that holds those two fields only.
C33_HeartbeatChangesTwoFields ==
    [][last'.op = "heartbeat" =>
          LET self == last'.caller IN
          /\ DOMAIN agents' = DOMAIN agents \cup {self}
          /\ \A other \in DOMAIN agents \ {self} : agents'[other] = agents[other]
          /\ agents'[self].last_heartbeat = now
          /\ agents'[self].status = "online"
          /\ IF self \in DOMAIN agents
             THEN /\ DOMAIN agents'[self] =
                         DOMAIN agents[self] \cup HeartbeatFields
                  /\ \A f \in DOMAIN agents[self] \ HeartbeatFields :
                         agents'[self][f] = agents[self][f]
             ELSE DOMAIN agents'[self] = HeartbeatFields
          /\ manifest' = manifest]_vars

\* An agent registered at an earlier time has sent a heartbeat, next to the
\* record of another agent.
C33_Witness ==
    /\ last.op = "heartbeat"
    /\ "registered_at" \in DOMAIN agents[last.caller]
    /\ agents[last.caller].registered_at < agents[last.caller].last_heartbeat
    /\ DOMAIN agents[last.caller].manifest # {}
    /\ \E other \in DOMAIN agents : other # last.caller

\* The agents that have registered: their record holds a manifest.
Registered(data) == {id \in DOMAIN data : "manifest" \in DOMAIN data[id]}

\* The last heartbeat of an agent is not older than the threshold.
Fresh(id, stale_threshold_hours) ==
    /\ agents[id].last_heartbeat # BadTimestamp
    /\ now - agents[id].last_heartbeat <= stale_threshold_hours

\* C34: no step removes an agent record or its manifest; and a discover_agents
\* call without type or tag filter returns every other agent that has
\* registered, whatever the age of its heartbeat, when online_only is false,
\* and exactly those whose last heartbeat is not older than
\* stale_threshold_hours when online_only is true.
C34_RegisteredAgentsStayDiscoverable ==
    [][/\ Registered(agents) \subseteq Registered(agents')
       /\ DOMAIN agents \subseteq DOMAIN agents'
       /\ (/\ last'.op = "discover_agents"
           /\ last'.given.agent_type = NoValue
           /\ last'.given.tags = {}
           /\ last'.given.exclude_self)
          => \A id \in Registered(agents) \ {last'.caller} :
                (\E i \in DOMAIN last'.returned :
                    last'.returned[i] = manifest[id])
                <=> (last'.given.online_only
                        => Fresh(id, last'.given.stale_threshold_hours))]_vars

\* A discover_agents call with online_only has returned an agent whose
\* heartbeat is later than its registration and as old as the threshold
\* allows.
C34_Witness ==
    /\ last.op = "discover_agents"
    /\ last.given.online_only
    /\ last.given.agent_type = NoValue
    /\ last.given.tags = {}
    /\ last.given.exclude_self
    /\ Len(last.returned) = 1
    /\ \E id \in Registered(agents) \ {last.caller} :
          /\ agents[id].registered_at < agents[id].last_heartbeat
          /\ now - agents[id].last_heartbeat = last.given.stale_threshold_hours

\* C36: an endorse_knowledge of a stored entry by an agent that is not among
\* its endorsers raises the stored confidence by one endorsement step, not
\* above 1; a dispute_knowledge by an agent that has not disputed it lowers
\* the stored confidence by one dispute step, not below 0; and the stored
\* confidence of every entry is between 0 and 1.
C36_OpinionsMoveConfidenceByOneStep ==
    [][/\ (/\ last'.op = "endorse_knowledge"
           /\ last'.entry \in DOMAIN Entries(knowledge)
           /\ Occurrences(Entries(knowledge)[last'.entry].endorsements,
                          last'.caller) = 0)
          => Entries(knowledge')[last'.entry].confidence =
                Min(FullConfidence,
                    Entries(knowledge)[last'.entry].confidence + EndorseStep)
       /\ (/\ last'.op = "dispute_knowledge"
           /\ last'.entry \in DOMAIN Entries(knowledge)
           /\ DisputesOf(Entries(knowledge)[last'.entry], last'.caller) = {})
          => Entries(knowledge')[last'.entry].confidence =
                Max(0, Entries(knowledge)[last'.entry].confidence - DisputeStep)
       /\ \A id \in DOMAIN Entries(knowledge') :
             Entries(knowledge')[id].confidence \in 0..FullConfidence]_vars

\* The messages of one list come in the order they have in another.
InOrderOf(some, all) ==
    \A i, j \in DOMAIN some :
        i < j => \E p, q \in DOMAIN all :
                    p < q /\ all[p] = some[i] /\ all[q] = some[j]

\* The messages of a list come in the order in which they were sent.
InSendOrder(list) ==
    \A i, j \in DOMAIN list : i < j => list[i].message_id < list[j].message_id

\* C37: check_messages returns the matching messages in the order they have
\* in the caller's inbox, and the messages it leaves there keep their order;
\* with no eviction every inbox holds its messages in the order in which
\* they were sent, so that two messages are never returned newest first.
C37_MessagesKeepSendOrder ==
    [][/\ \A to \in DOMAIN messages' : InSendOrder(messages'[to])
       /\ last'.op = "check" =>
             LET inbox == Get(messages, last'.caller, <<>>) IN
             /\ InOrderOf(last'.returned, inbox)
             /\ InOrderOf(Get(messages', last'.caller, <<>>), inbox)
             /\ InSendOrder(last'.returned)]_vars

\* A check_messages has returned two messages.
C37_Witness ==
    /\ last.op = "check"
    /\ Len(last.returned) = 2
    /\ last.returned[1].message_id < last.returned[2].message_id

(***************************************************************************)
(* SpecDrain: the Reader drains its inbox while other processes send to    *)
(* it, each step of load and save an action of its own.                    *)
(***************************************************************************)
NextDrain ==
    \/ \E p \in Writers : StartSend(p, Reader)
    \/ StartCheck(Checker)
    \/ \E p \in Procs : LoadOpen(p)
    \/ \E p \in Procs : LoadRead(p)
    \/ \E p \in Procs : SaveOpen(p)
    \/ \E p \in Procs : SaveWrite(p)
    \/ \E p \in Procs : SaveReplace(p)

SpecDrain == Init /\ [][NextDrain]_vars

\* The step in which a check_messages call of the Reader returns.
CheckReturns ==
    /\ proc[Checker].pc = "saveReplace"
    /\ proc'[Checker].outcome = "ok"

ReaderDrains == CheckMessages(Reader, NoValue, NoValue, TRUE)

NextDelivery ==
    \/ /\ nextId < MaxQueueSends
       /\ \E message \in CleanupMessages(nextId + 1, now) :
             SendMessage(QueueSender, message)
    \/ ReaderDrains
    \/ CheckMessages(QueueSender, NoValue, NoValue, TRUE)
    \/ CleanupExpired(QueueSender)
    \/ MyStats(Reader)
    \/ Tick

\* The Reader keeps calling check_messages(): a call that would change
\* something is not put off for ever.
SpecDelivery == Init /\ [][NextDelivery]_vars /\ WF_vars(ReaderDrains)

\* The Reader's inbox, and the place a message has in it (0: none).
ReaderInbox == Get(messages, Reader, <<>>)
Held(id) == \E i \in DOMAIN ReaderInbox : ReaderInbox[i].message_id = id
PlaceOf(inbox, id) ==
    IF \E i \in DOMAIN inbox : inbox[i].message_id = id
    THEN CHOOSE i \in DOMAIN inbox : inbox[i].message_id = id
    ELSE 0

\* The message is in the Reader's inbox and expired.
HeldExpired(id) ==
    \E i \in DOMAIN ReaderInbox :
        ReaderInbox[i].message_id = id /\ IsExpired(ReaderInbox[i], now)

\* The last call was a check_messages of the Reader that returned the message.
Delivered(id) ==
    /\ last.op = "check"
    /\ last.caller = Reader
    /\ id \in MessageIds(last.returned)

\* The inbox is full of later messages.
Crowded(id) ==
    /\ Len(ReaderInbox) = MAX_MESSAGE_QUEUE
    /\ \A i \in DOMAIN ReaderInbox : ReaderInbox[i].message_id > id

\* C40: a message sent to the Reader leaves the inbox only in a
\* check_messages of the Reader that returns it, when it is expired, or in a
\* send_message to the Reader that finds at least cap - 1 later messages
\* behind it; no message enters the inbox a second time, and a message the
\* Reader's check_messages() returns was in the inbox and is in it no more,
\* so that no message is returned by two of these calls; and while the
\* Reader keeps calling check_messages(), a message in its inbox is in the
\* end returned to it, unless it expires or cap later messages are sent
\* first.
C40_SentMessageIsDeliveredOnce ==
    /\ [][\A id \in 1..MaxQueueSends :
             /\ (Held(id) /\ ~Held(id)') =>
                   \/ /\ last'.op = "check"
                      /\ last'.caller = Reader
                      /\ id \in MessageIds(last'.returned)
                   \/ HeldExpired(id)
                   \/ /\ last'.op = "send"
                      /\ last'.to = Reader
                      /\ Len(ReaderInbox) - PlaceOf(ReaderInbox, id)
                            >= MAX_MESSAGE_QUEUE - 1
             /\ (~Held(id) /\ Held(id)') =>
                   last'.op = "send" /\ id = nextId' /\ nextId' = nextId + 1
             /\ (/\ last'.op = "check"
                 /\ last'.caller = Reader
                 /\ last'.drain
                 /\ id \in MessageIds(last'.returned))
                => Held(id) /\ ~Held(id)']_vars
    /\ \A id \in 1..MaxQueueSends :
          Held(id) ~> (Delivered(id) \/ HeldExpired(id) \/ Crowded(id))

\* The Reader's check_messages() has returned a full inbox: its first
\* message with cap - 1 later messages behind it.
C40_Witness ==
    /\ last.op = "check"
    /\ last.caller = Reader
    /\ last.drain
    /\ Len(last.returned) = MAX_MESSAGE_QUEUE
    /\ ReaderInbox = <<>>

====
